---- MODULE Spec2Model ----
(***************************************************************************)
(* chogwatch: the eligibility screening engine.                            *)
(*                                                                         *)
(* The state is the D1 database (settings, profiles, wallets,              *)
(* screening_runs, profile_snapshots), the clock, and one record of local  *)
(* variables per invocation of runScreening.  Every await of runScreening  *)
(* is one step: the awaited operation takes effect, then the synchronous   *)
(* code up to the next await runs.  Link/unlink requests, settings changes *)
(* and the clock interleave with those steps.                              *)
(*                                                                         *)
(* Text values (settings values, raw balances, handles) are sequences of   *)
(* one-character strings, so that parseInt, BigInt and toString are        *)
(* computed, not assumed.                                                  *)
(***************************************************************************)
EXTENDS Integers, Sequences, FiniteSets, TLC

(***************************************************************************)
(* Bounds of the model.                                                    *)
(***************************************************************************)
MaxInvocations == 2     \* invocations of runScreening, one after the other (Spec)
MaxTicks == 2           \* clock advances (Spec)
MaxWalletIds == 1       \* wallet records ever created (Spec)
MaxRunInvocations == 1  \* invocations of runScreening (SpecRun)
MaxBaselineInvocations == 3  \* invocations of runScreening (SpecBaseline)
MaxBaselineTicks == 1   \* clock advances (SpecBaseline)
MaxRunWalletIds == 2    \* wallet records ever created (SpecRun)
MaxOverlapInvocations == 2   \* invocations of runScreening, at once (SpecOverlap)
MaxGroupInFlight == 2    \* requests on the group and the admins served at once
MaxGateInvocations == 2  \* invocations of runScreening (SpecGate)
MaxGateTicks == 1        \* clock advances (SpecGate)
MaxGateImports == 1      \* import requests (SpecGate)
MaxGroupRequests == 3    \* requests and member updates (SpecGroup)
MaxGroupTicks == 1       \* clock advances (SpecGroup)
MaxAdminRequests == 3    \* requests to add and to remove admins (SpecAdmins)
MaxAdminTicks == 2       \* clock advances (SpecAdmins)
MaxD1Failures == 2      \* D1 operations that fail in one behaviour
MaxDirect == 1          \* largest direct balance a chain read returns
MaxLpAmount == 3        \* largest share, supply and reserve of one pool (SpecCalc)
MaxPoolAmount == 2      \* the same, of each pool of a list of pools (SpecCalc)
MaxCalcPools == 2       \* pools of a list of pools (SpecCalc)
MaxLeaderProfiles == 11 \* profiles ranked by one run (SpecCalc)
MaxMixedProfiles == 7   \* of which, in a run with ineligible profiles (SpecCalc)
MaxLeaderTotal == 3     \* largest aggregate of a ranked profile (SpecCalc)
MaxLinkRequests == 3    \* link requests (SpecLink)
MaxAccountLinks == 2    \* link requests (SpecAccount)
MaxAccountNonces == 1   \* nonce requests (SpecAccount)
MaxAccountOthers == 1   \* unlink, recover and upsert requests (SpecAccount)
MaxInFlight == 2        \* requests the worker serves at one time (SpecAccount)
MaxAccountTicks == 1    \* clock advances (SpecAccount)

(***************************************************************************)
(* Program constants.                                                      *)
(***************************************************************************)
MsPerHour == 3600000    \* 60 * 60 * 1000
TopN == 10              \* allEligible.slice(0, 10)
MONAD_CHAIN_ID == 143   \* the env binding, parseInt(c.env.MONAD_CHAIN_ID, 10)
NONCE_EXPIRY_MS == 10 * 60 * 1000
OTP_EXPIRY_MS == 5 * 60 * 1000
SESSION_EXPIRY_MS == 24 * MsPerHour

\* the text of the env binding TELEGRAM_CHAT_ID, the chat id of the group:
\* what handleMemberUpdate compares with and getGroupChatId falls back to
envChatId == <<"-", "1">>

\* the chats member updates come from: the group of the env binding and
\* another group the bot is in
ChatIdNumbers == {0 - 1, 0 - 2}

\* the chat ids requests carry: those of the two groups, and a text that is
\* no chat id
NewChatIds == {<<"-", "1">>, <<"-", "2">>, <<"x">>}

\* The clock advances in steps of twelve hours: an invocation is then half
\* an interval, one interval or more after the last successful run when the
\* interval is the default 24 hours.
ClockStepMs == 12 * MsPerHour

\* SQL NULL: of a TEXT column holding a message, of an INTEGER column (a
\* timestamp, or the eligible flag a LEFT JOIN finds no snapshot for), and
\* of a TEXT column holding a raw balance (toString never yields the empty
\* text, so the empty sequence is free to stand for NULL there).
NULL == "NULL"
NoTime == -1
NoText == <<>>

\* Messages of the three kinds of exception the run can meet.
D1Error == "D1_ERROR"
RpcError == "RPC_ERROR"
SyntaxError == "SyntaxError: Cannot convert to a BigInt"

(***************************************************************************)
(* Text: decimal digits, toString, parseInt, BigInt.                       *)
(***************************************************************************)
Digits == <<"0", "1", "2", "3", "4", "5", "6", "7", "8", "9">>

IsDigit(c) == \E d \in 1..10 : Digits[d] = c

DigitVal(c) == (CHOOSE d \in 1..10 : Digits[d] = c) - 1

IsSpace(c) == c = " "

\* bigint.toString() of a non-negative value
RECURSIVE toString(_)
toString(n) ==
    IF n < 10 THEN <<Digits[n + 1]>>
    ELSE toString(n \div 10) \o <<Digits[(n % 10) + 1]>>

RECURSIVE TrimStart(_)
TrimStart(s) ==
    IF s # <<>> /\ IsSpace(Head(s)) THEN TrimStart(Tail(s)) ELSE s

RECURSIVE TrimEnd(_)
TrimEnd(s) ==
    IF s # <<>> /\ IsSpace(s[Len(s)]) THEN TrimEnd(SubSeq(s, 1, Len(s) - 1)) ELSE s

\* the longest prefix of s made of digits
RECURSIVE DigitPrefix(_)
DigitPrefix(s) ==
    IF s # <<>> /\ IsDigit(Head(s)) THEN <<Head(s)>> \o DigitPrefix(Tail(s)) ELSE <<>>

RECURSIVE DigitsValue(_, _)
DigitsValue(ds, acc) ==
    IF ds = <<>> THEN acc ELSE DigitsValue(Tail(ds), 10 * acc + DigitVal(Head(ds)))

NaN == [nan |-> TRUE, v |-> 0]

\* parseInt(s, 10): leading white space is skipped, a sign is read, then as
\* many digits as there are; whatever follows is ignored; no digit: NaN.
parseInt(s) ==
    LET t == TrimStart(s)
        neg == t # <<>> /\ Head(t) = "-"
        u == IF t # <<>> /\ Head(t) \in {"-", "+"} THEN Tail(t) ELSE t
        ds == DigitPrefix(u)
    IN  IF ds = <<>> THEN NaN
        ELSE [nan |-> FALSE,
              v |-> IF neg THEN 0 - DigitsValue(ds, 0) ELSE DigitsValue(ds, 0)]

\* BigInt(s): white space around is trimmed, the empty string is 0n, a
\* signed run of digits is its value, anything else throws SyntaxError.
\* (Hexadecimal, octal and binary literals are not in the model's values.)
BigInt(s) ==
    LET t == TrimEnd(TrimStart(s))
        neg == t # <<>> /\ Head(t) = "-"
        u == IF t # <<>> /\ Head(t) \in {"-", "+"} THEN Tail(t) ELSE t
    IN  IF t = <<>> THEN [ok |-> TRUE, v |-> 0]
        ELSE IF u # <<>> /\ DigitPrefix(u) = u
             THEN [ok |-> TRUE,
                   v |-> IF neg THEN 0 - DigitsValue(u, 0) ELSE DigitsValue(u, 0)]
             ELSE [ok |-> FALSE, v |-> 0]

\* telegram_handle.replace('@', ''): the first '@' is removed
RECURSIVE StripAt(_)
StripAt(h) ==
    IF h = <<>> THEN <<>>
    ELSE IF Head(h) = "@" THEN Tail(h)
    ELSE <<Head(h)>> \o StripAt(Tail(h))

RECURSIVE SeqSum(_)
SeqSum(s) == IF s = <<>> THEN 0 ELSE Head(s) + SeqSum(Tail(s))

Range(s) == {s[k] : k \in 1..Len(s)}

(***************************************************************************)
(* lib/chog: the exposure calculator and the eligibility evaluator.        *)
(***************************************************************************)
\* isEligible(balance, thresholdRaw); BigInt(thresholdRaw) has not thrown
isEligibleMutGt(balance, thresholdRaw) ==
    balance > BigInt(thresholdRaw).v

isEligible(balance, thresholdRaw) ==
    balance >= BigInt(thresholdRaw).v

\* getLpChogExposure: read is what the three batched reads returned
getLpChogExposureMutSide0(lpPair, read) ==
    IF read.userLpBalance = 0 \/ read.totalSupply = 0
    THEN [userLpBalance |-> 0, chogUnderlying |-> 0]
    ELSE [userLpBalance |-> read.userLpBalance,
          chogUnderlying |-> (read.userLpBalance * read.reserve0) \div read.totalSupply]

getLpChogExposure(lpPair, read) ==
    IF read.userLpBalance = 0 \/ read.totalSupply = 0
    THEN [userLpBalance |-> 0, chogUnderlying |-> 0]
    ELSE LET chogReserve == IF lpPair.chog_side = 0 THEN read.reserve0 ELSE read.reserve1
         IN  [userLpBalance |-> read.userLpBalance,
              chogUnderlying |-> (read.userLpBalance * chogReserve) \div read.totalSupply]

\* the loop over lpPairs of getTotalChogExposure: pairs k..Len(lpPairs),
\* poolReads[k] being the outcome of the reads of pair k
RECURSIVE LpLoopMutStopAtFailure(_, _, _)
LpLoopMutStopAtFailure(lpPairs, poolReads, k) ==
    IF k > Len(lpPairs) \/ ~poolReads[k].ok THEN [lpBalance |-> 0, lpBreakdown |-> <<>>]
    ELSE LET rest == LpLoopMutStopAtFailure(lpPairs, poolReads, k + 1)
             e == getLpChogExposure(lpPairs[k], poolReads[k])
         IN  IF e.chogUnderlying > 0
             THEN [lpBalance |-> e.chogUnderlying + rest.lpBalance,
                   lpBreakdown |-> <<[pairAddress |-> lpPairs[k].pair_address,
                                      userLpBalance |-> e.userLpBalance,
                                      chogUnderlying |-> e.chogUnderlying]>>
                                   \o rest.lpBreakdown]
             ELSE rest

RECURSIVE LpLoop(_, _, _)
LpLoop(lpPairs, poolReads, k) ==
    IF k > Len(lpPairs) THEN [lpBalance |-> 0, lpBreakdown |-> <<>>]
    ELSE LET rest == LpLoop(lpPairs, poolReads, k + 1)
             r == poolReads[k]
             e == getLpChogExposure(lpPairs[k], r)
         IN  IF r.ok /\ e.chogUnderlying > 0
             THEN [lpBalance |-> e.chogUnderlying + rest.lpBalance,
                   lpBreakdown |-> <<[pairAddress |-> lpPairs[k].pair_address,
                                      userLpBalance |-> e.userLpBalance,
                                      chogUnderlying |-> e.chogUnderlying]>>
                                   \o rest.lpBreakdown]
             ELSE rest

\* getTotalChogExposure: ok = FALSE when the direct-balance read throws
getTotalChogExposure(lpPairs, directRead, poolReads) ==
    LET lp == LpLoop(lpPairs, poolReads, 1)
    IN  IF ~directRead.ok
        THEN [ok |-> FALSE, directBalance |-> 0, lpBalance |-> 0, totalBalance |-> 0,
              lpBreakdown |-> <<>>]
        ELSE [ok |-> TRUE,
              directBalance |-> directRead.v,
              lpBalance |-> lp.lpBalance,
              totalBalance |-> directRead.v + lp.lpBalance,
              lpBreakdown |-> lp.lpBreakdown]

(***************************************************************************)
(* The chain.  Balances, shares and reserves are those below for the time  *)
(* modelled; what varies from read to read is whether the read fails.      *)
(***************************************************************************)
Addresses == {"0xa1", "0xa2"}

\* balanceOf(address) of the CHOG contract
ChogBalanceOf(address) == MaxDirect

\* balanceOf(address), totalSupply() and getReserves() of an LP pair: 0xa2
\* holds one of the two shares of each pair, 0xa1 none
PairState(pair_address, address) ==
    [userLpBalance |-> IF address = "0xa2" THEN 1 ELSE 0,
     totalSupply |-> 2,
     reserve0 |-> IF pair_address = "pool0" THEN 3 ELSE 0,
     reserve1 |-> IF pair_address = "pool0" THEN 7 ELSE 5]

\* the outcomes of getDirectChogBalance for an address
DirectReads(address) ==
    {[ok |-> FALSE, v |-> 0], [ok |-> TRUE, v |-> ChogBalanceOf(address)]}

\* the outcomes of the three batched reads of getLpChogExposure
PoolReads(pair_address, address) ==
    {[ok |-> FALSE, userLpBalance |-> 0, totalSupply |-> 0, reserve0 |-> 0, reserve1 |-> 0],
     [ok |-> TRUE] @@ PairState(pair_address, address)}

(***************************************************************************)
(* The tables that no operation of the model writes.                       *)
(***************************************************************************)
\* lp_pairs, in rowid order
lp_pairs ==
    <<[pair_address |-> "pool0", chog_side |-> 0, enabled |-> 1],
      [pair_address |-> "pool1", chog_side |-> 1, enabled |-> 0]>>

\* profiles, in rowid order
profiles ==
    <<[id |-> "A", telegram_handle |-> <<"@", "a">>],
      [id |-> "B", telegram_handle |-> <<"b">>]>>

ProfileIds == {profiles[k].id : k \in 1..Len(profiles)}

(***************************************************************************)
(* Settings.                                                               *)
(***************************************************************************)
\* amounts are counted in a unit in which the shipped threshold,
\* '1000000000000000000000000' raw, is 2
DefaultThresholdRaw == <<"2">>
DefaultIntervalHours == <<"2", "4">>

\* the values PUT /settings/:key is called with
IntervalValues == {<<"1", "2", ".", "5">>, <<"x">>}
ThresholdValues == {<<"1">>, <<"2">>, <<"1", "e", "2">>}

VARIABLES
    now,                \* Date.now(), in ms
    settings,           \* key -> value, for the keys present
    wallets,            \* wallet id -> row
    nextWalletId,       \* wallet ids handed out so far
    screening_runs,     \* run id -> row
    profile_snapshots,  \* <<run_id, profile_id>> -> row
    started,            \* invocations of runScreening so far
    inv,                \* invocation -> its local variables
    d1Failures,         \* D1 operations that have failed so far
    calc,               \* the call of the exposure calculator (SpecCalc)
    join,               \* the last join request the bot has answered (SpecJoin)
    links,              \* the link requests received, in order (SpecLink)
    accounts,           \* profiles, nonces and the requests on them (SpecAccount)
    group               \* group_members, admin_sessions, admins and their requests

vars == <<now, settings, wallets, nextWalletId, screening_runs,
          profile_snapshots, started, inv, d1Failures, calc, join, links,
          accounts, group>>

Invocations == 1..MaxBaselineInvocations

(***************************************************************************)
(* Rows and local variables.                                               *)
(***************************************************************************)
\* the env bindings of the deployment
TELEGRAM_BOT_TOKEN == "bot-token"
TELEGRAM_CHAT_ID == "env-chat"

NoResult ==
    [runId |-> 0, status |-> NULL, profilesProcessed |-> 0, walletsProcessed |-> 0,
     eligibleCount |-> 0, messageSent |-> FALSE, error |-> NULL]

NoExposure ==
    [ok |-> FALSE, directBalance |-> 0, lpBalance |-> 0, totalBalance |-> 0,
     lpBreakdown |-> <<>>]

\* the local variables of an invocation that has not started.  Two of them
\* are no variables of the code and are read by the properties only:
\* thresholdAtStart, the threshold setting persisted when the call was made,
\* and exposuresComputed, the calls of getTotalChogExposure that returned.
Idle ==
    [pc |-> "idle", force |-> FALSE, runId |-> 0, startedAt |-> NoTime,
     thresholdAtStart |-> <<>>, exposuresComputed |-> 0, lastRunStartedAt |-> NoTime,
     toLoad |-> <<>>, profiles |-> <<>>, lpPairs |-> <<>>,
     baseline |-> 0, previousEligible |-> {}, thresholdRaw |-> <<>>,
     pi |-> 0, wi |-> 0, profileTotalChog |-> 0, walletDetails |-> <<>>,
     exposure |-> NoExposure, err |-> NULL, eligible |-> FALSE,
     walletsProcessed |-> 0, eligibleCount |-> 0,
     newlyEligible |-> <<>>, droppedEligible |-> <<>>, allEligible |-> <<>>,
     topEligible |-> <<>>, groupChatId |-> NULL, messageSent |-> FALSE,
     result |-> NoResult]

\* no call of the exposure calculator outside a run
NoCall == [fn |-> "none", pc |-> "none"]

\* no join request answered yet
NoJoin == [username |-> <<>>, profile_id |-> NULL, run_id |-> 0, eligible |-> NoTime,
           approved |-> FALSE]

\* no request in a slot of the worker
NoRequest == [kind |-> "none", pc |-> "none"]

\* the tables profiles and nonces, empty; whether D1 enforces the foreign
\* keys of the schema; the requests being served, those received so far,
\* and the secrets returned by recoveries.  nonceOf is no state of the
\* program: the nonce each wallet ever created was linked with, read by the
\* properties only.
NoAccounts ==
    [foreign_keys |-> TRUE, profiles |-> <<>>, nonces |-> <<>>,
     reqs |-> [s \in 1..MaxInFlight |-> NoRequest],
     received |-> [link |-> 0, nonce |-> 0, other |-> 0],
     returned |-> {}, nonceOf |-> <<>>]

\* the tables group_members, admin_sessions and admins, the request on
\* them that is being served, and the last list of users to kick that was
\* returned; nextAdminId counts the admins ever inserted.  lastEvent and
\* migrated are no state of the program: whether the last event processed
\* for a user put the user in the group, and how many times each session
\* has changed the notification target; they are read by the properties
\* only.
NoList == [answered |-> FALSE, threshold |-> 0, rows |-> {}]

NoGroup ==
    [group_members |-> <<>>, admin_sessions |-> <<>>, admins |-> {},
     reqs |-> [s \in 1..MaxGroupInFlight |-> NoRequest], received |-> 0,
     nextAdminId |-> 0, to_kick |-> NoList, lastEvent |-> <<>>, migrated |-> <<>>]

Init ==
    /\ now = 0
    /\ settings = [k \in {"eligibility_threshold_raw", "screening_interval_hours",
                          "bot_notifications_enabled"} |->
                      CASE k = "eligibility_threshold_raw" -> DefaultThresholdRaw
                        [] k = "screening_interval_hours" -> DefaultIntervalHours
                        [] k = "bot_notifications_enabled" -> <<"t", "r", "u", "e">>]
    /\ wallets = <<>>
    /\ nextWalletId = 0
    /\ screening_runs = <<>>
    /\ profile_snapshots = <<>>
    /\ started = 0
    /\ inv = [i \in Invocations |-> Idle]
    /\ d1Failures = 0
    /\ calc = NoCall
    /\ join = NoJoin
    /\ links = <<>>
    /\ accounts = NoAccounts
    /\ group = NoGroup

(***************************************************************************)
(* lib/db: the queries of the run.                                         *)
(***************************************************************************)
\* a setting's value, or the empty text when the key is absent
SettingValue(key) == IF key \in DOMAIN settings THEN settings[key] ELSE <<>>

\* getLastScreeningRun: WHERE status = 'success' ORDER BY started_at DESC
\* LIMIT 1.  The set of rows the query may return (one of the latest when
\* several started at the same time, none when the set is empty).
getLastScreeningRunMutAnyStatus ==
    {r \in DOMAIN screening_runs :
        \A q \in DOMAIN screening_runs :
            screening_runs[q].started_at <= screening_runs[r].started_at}

getLastScreeningRun ==
    {r \in DOMAIN screening_runs :
        /\ screening_runs[r].status = "success"
        /\ \A q \in DOMAIN screening_runs :
              screening_runs[q].status = "success"
                  => screening_runs[q].started_at <= screening_runs[r].started_at}

\* getSnapshotsForRun(runId): the profile ids of its rows
getSnapshotsForRun(runId) ==
    {k[2] : k \in {x \in DOMAIN profile_snapshots : x[1] = runId}}

\* the ids of a set of wallets, greatest first
RECURSIVE DescendingIds(_)
DescendingIds(ids) ==
    IF ids = {} THEN <<>>
    ELSE LET m == CHOOSE x \in ids : \A y \in ids : y <= x
         IN  <<m>> \o DescendingIds(ids \ {m})

\* getWalletsByProfile: WHERE profile_id = ? ORDER BY created_at DESC.  Ids
\* are handed out in creation order, so that order is by descending id.
getWalletsByProfile(profileId) ==
    LET ids == DescendingIds({w \in DOMAIN wallets : wallets[w].profile_id = profileId})
    IN  [k \in 1..Len(ids) |-> [id |-> ids[k], address |-> wallets[ids[k]].address]]

\* getEnabledLpPairs: WHERE enabled = 1
getEnabledLpPairs == SelectSeq(lp_pairs, LAMBDA p : p.enabled = 1)

(***************************************************************************)
(* cron/screening: the synchronous code between two awaits.                *)
(***************************************************************************)
\* allEligible.sort((a, b) => (b.totalRaw > a.totalRaw ? 1 : -1)): insertion
\* of x into a list in descending order of totalRaw.  The comparator never
\* answers 0; an element is placed after the elements that are not smaller.
RECURSIVE InsertDescending(_, _)
InsertDescending(x, sorted) ==
    IF sorted = <<>> THEN <<x>>
    ELSE IF x.totalRaw > Head(sorted).totalRaw THEN <<x>> \o sorted
    ELSE <<Head(sorted)>> \o InsertDescending(x, Tail(sorted))

RECURSIVE SortDescending(_)
SortDescending(list) ==
    IF list = <<>> THEN <<>>
    ELSE InsertDescending(list[Len(list)], SortDescending(SubSeq(list, 1, Len(list) - 1)))

\* lines 178-190: after the loop over the profiles
AfterLoopMutNoSort(l) ==
    LET top == SubSeq(l.allEligible, 1,
                      IF Len(l.allEligible) < TopN THEN Len(l.allEligible) ELSE TopN)
    IN  [l EXCEPT !.topEligible = [k \in 1..Len(top) |-> top[k].handle],
                  !.pc = "getGroupChatId"]

AfterLoop(l) ==
    LET sorted == SortDescending(l.allEligible)
        top == SubSeq(sorted, 1, IF Len(sorted) < TopN THEN Len(sorted) ELSE TopN)
    IN  [l EXCEPT !.allEligible = sorted,
                  !.topEligible = [k \in 1..Len(top) |-> top[k].handle],
                  !.pc = "getGroupChatId"]

\* lines 96-106: the next profile of the loop, or the end of the loop
NextProfile(l) ==
    IF l.pi < Len(l.profiles)
    THEN [l EXCEPT !.pi = @ + 1, !.wi = 1, !.profileTotalChog = 0,
                   !.walletDetails = <<>>, !.pc = "getTotalChogExposure"]
    ELSE AfterLoop(l)

\* lines 142-163, a profile whose wallets are done, with the mutants of the
\* classification used by the checks of the diff
CheckEligibilityMutNewlyAll(l) ==
    LET profile == l.profiles[l.pi]
        handle == StripAt(profile.telegram_handle)
    IN  IF ~BigInt(l.thresholdRaw).ok
        THEN [l EXCEPT !.err = SyntaxError, !.pc = "catch"]
        ELSE LET eligible == isEligible(l.profileTotalChog, l.thresholdRaw)
                 wasEligible == profile.id \in l.previousEligible
             IN  [l EXCEPT
                    !.eligible = eligible,
                    !.eligibleCount = IF eligible THEN @ + 1 ELSE @,
                    !.allEligible =
                        IF eligible
                        THEN Append(@, [handle |-> handle, totalRaw |-> l.profileTotalChog])
                        ELSE @,
                    !.newlyEligible =
                        IF eligible THEN Append(@, handle) ELSE @,
                    !.droppedEligible =
                        IF ~eligible /\ wasEligible THEN Append(@, handle) ELSE @,
                    !.pc = "insertSnapshot"]

CheckEligibilityMutEligibleOnly(l) ==
    LET profile == l.profiles[l.pi]
        handle == StripAt(profile.telegram_handle)
    IN  IF ~BigInt(l.thresholdRaw).ok
        THEN [l EXCEPT !.err = SyntaxError, !.pc = "catch"]
        ELSE LET eligible == isEligible(l.profileTotalChog, l.thresholdRaw)
                 wasEligible == profile.id \in l.previousEligible
                 m == [l EXCEPT
                    !.eligible = eligible,
                    !.eligibleCount = IF eligible THEN @ + 1 ELSE @,
                    !.allEligible =
                        IF eligible
                        THEN Append(@, [handle |-> handle, totalRaw |-> l.profileTotalChog])
                        ELSE @,
                    !.newlyEligible =
                        IF eligible /\ ~wasEligible THEN Append(@, handle) ELSE @,
                    !.droppedEligible =
                        IF ~eligible /\ wasEligible THEN Append(@, handle) ELSE @,
                    !.pc = "insertSnapshot"]
             IN  IF eligible THEN m ELSE NextProfile(m)

CheckEligibilityMutRereads(l) ==
    LET profile == l.profiles[l.pi]
        handle == StripAt(profile.telegram_handle)
        thresholdRaw == SettingValue("eligibility_threshold_raw")
    IN  IF ~BigInt(thresholdRaw).ok
        THEN [l EXCEPT !.err = SyntaxError, !.pc = "catch"]
        ELSE LET eligible == isEligible(l.profileTotalChog, thresholdRaw)
                 wasEligible == profile.id \in l.previousEligible
             IN  [l EXCEPT
                    !.eligible = eligible,
                    !.eligibleCount = IF eligible THEN @ + 1 ELSE @,
                    !.allEligible =
                        IF eligible
                        THEN Append(@, [handle |-> handle, totalRaw |-> l.profileTotalChog])
                        ELSE @,
                    !.newlyEligible =
                        IF eligible /\ ~wasEligible THEN Append(@, handle) ELSE @,
                    !.droppedEligible =
                        IF ~eligible /\ wasEligible THEN Append(@, handle) ELSE @,
                    !.pc = "insertSnapshot"]

CheckEligibility(l) ==
    LET profile == l.profiles[l.pi]
        handle == StripAt(profile.telegram_handle)
    IN  IF ~BigInt(l.thresholdRaw).ok
        THEN [l EXCEPT !.err = SyntaxError, !.pc = "catch"]
        ELSE LET eligible == isEligible(l.profileTotalChog, l.thresholdRaw)
                 wasEligible == profile.id \in l.previousEligible
             IN  [l EXCEPT
                    !.eligible = eligible,
                    !.eligibleCount = IF eligible THEN @ + 1 ELSE @,
                    !.allEligible =
                        IF eligible
                        THEN Append(@, [handle |-> handle, totalRaw |-> l.profileTotalChog])
                        ELSE @,
                    !.newlyEligible =
                        IF eligible /\ ~wasEligible THEN Append(@, handle) ELSE @,
                    !.droppedEligible =
                        IF ~eligible /\ wasEligible THEN Append(@, handle) ELSE @,
                    !.pc = "insertSnapshot"]

\* line 106: the next wallet of the profile, or the profile's classification
NextWallet(l) ==
    IF l.wi < Len(l.profiles[l.pi].wallets)
    THEN [l EXCEPT !.wi = @ + 1, !.pc = "getTotalChogExposure"]
    ELSE CheckEligibility(l)

\* lines 95-96: the loop over the profiles starts
StartLoop(l) ==
    IF l.profiles = <<>> THEN AfterLoop(l)
    ELSE [l EXCEPT !.pi = 1, !.wi = 1, !.profileTotalChog = 0,
                   !.walletDetails = <<>>, !.pc = "getTotalChogExposure"]

\* the invocation has returned (with the result the caller of Ended sets) or
\* thrown: its local variables are gone; what is kept is the call, when it
\* was made and whether it was forced
Ended(l, pc) == [Idle EXCEPT !.pc = pc, !.force = l.force, !.startedAt = l.startedAt]

(***************************************************************************)
(* cron/screening: runScreening, one action per await.  ok is whether the  *)
(* awaited D1 operation succeeded; a failed one rejects and changes        *)
(* nothing.                                                                *)
(***************************************************************************)
Set(i, l) == inv' = [inv EXCEPT ![i] = l]

Db == <<settings, wallets, nextWalletId, screening_runs, profile_snapshots>>
Clock == <<now>>

\* whether an awaited D1 operation succeeds; the failures of a behaviour are
\* counted, up to the bound
D1Outcomes == IF d1Failures < MaxD1Failures THEN BOOLEAN ELSE {TRUE}

D1(ok) == d1Failures' = IF ok THEN d1Failures ELSE d1Failures + 1

\* lines 31-36: the call, up to the first await; max bounds the calls of a
\* behaviour
Enter(force, max) ==
    /\ started < max
    /\ started' = started + 1
    /\ Set(started + 1,
           [Idle EXCEPT !.pc = IF force THEN "insertRun" ELSE "gateLastRun",
                        !.force = force,
                        !.runId = started + 1,
                        !.startedAt = now,
                        !.thresholdAtStart = SettingValue("eligibility_threshold_raw")])
    /\ UNCHANGED <<Db, Clock, calc, join, links, accounts, group, d1Failures>>

NoneRunning == \A j \in 1..started : inv[j].pc \in {"returned", "threw"}

\* index.ts scheduled(): the cron trigger, runScreening(env)
scheduled(max) == NoneRunning /\ Enter(FALSE, max)

\* POST /api/admin/screening/run-now: runScreening(c.env, true)
runNow(max) == NoneRunning /\ Enter(TRUE, max)

\* line 37: getLastScreeningRun of the interval check
GateLastRun(i) ==
    /\ inv[i].pc = "gateLastRun"
    /\ \E ok \in D1Outcomes :
         /\ D1(ok)
         /\ IF ~ok THEN Set(i, Ended(inv[i], "threw"))
            ELSE IF getLastScreeningRun = {}
                 THEN Set(i, [inv[i] EXCEPT !.pc = "insertRun"])
                 ELSE \E r \in getLastScreeningRun :
                        Set(i, [inv[i] EXCEPT
                                  !.lastRunStartedAt = screening_runs[r].started_at,
                                  !.pc = "gateInterval"])
    /\ UNCHANGED <<Db, Clock, calc, join, links, accounts, group, started>>

\* lines 43-47: whether the invocation is skipped, with the mutant that
\* takes the interval for minutes
ShouldSkipMutMinutes(intervalText, timeSinceLastRun) ==
    LET intervalHours == parseInt(IF intervalText = <<>> THEN DefaultIntervalHours
                                  ELSE intervalText)
    IN  ~intervalHours.nan /\ timeSinceLastRun < intervalHours.v * 60 * 1000

ShouldSkip(intervalText, timeSinceLastRun) ==
    LET intervalHours == parseInt(IF intervalText = <<>> THEN DefaultIntervalHours
                                  ELSE intervalText)
    IN  ~intervalHours.nan /\ timeSinceLastRun < intervalHours.v * MsPerHour

\* lines 40-60: the interval setting is read; the invocation is skipped or
\* goes on to create its run
GateInterval(i) ==
    /\ inv[i].pc = "gateInterval"
    /\ \E ok \in D1Outcomes :
         /\ D1(ok)
         /\ IF ~ok THEN Set(i, Ended(inv[i], "threw"))
            ELSE IF ShouldSkip(SettingValue("screening_interval_hours"),
                               inv[i].startedAt - inv[i].lastRunStartedAt)
                 THEN Set(i, [Ended(inv[i], "returned") EXCEPT
                                !.result = [NoResult EXCEPT !.status = "success",
                                                            !.error = "Skipped"]])
                 ELSE Set(i, [inv[i] EXCEPT !.pc = "insertRun"])
    /\ UNCHANGED <<Db, Clock, calc, join, links, accounts, group, started>>

\* lines 64-67: INSERT INTO screening_runs
InsertRun(i) ==
    /\ inv[i].pc = "insertRun"
    /\ \E ok \in D1Outcomes :
         /\ D1(ok)
         /\ IF ~ok
            THEN Set(i, Ended(inv[i], "threw")) /\ UNCHANGED screening_runs
            ELSE /\ screening_runs' = screening_runs @@
                       (inv[i].runId :>
                           [started_at |-> inv[i].startedAt, finished_at |-> NoTime,
                            status |-> "running", error |-> NULL,
                            profiles_processed |-> 0, wallets_processed |-> 0,
                            eligible_count |-> 0, message_sent |-> 0])
                 /\ Set(i, [inv[i] EXCEPT !.pc = "selectProfiles"])
    /\ UNCHANGED <<settings, wallets, nextWalletId, profile_snapshots, Clock, calc, join, links, accounts, group, started>>

\* a D1 operation inside the try block rejected: the catch of line 236
Caught(l) == [l EXCEPT !.err = D1Error, !.pc = "catch"]

\* lib/db getAllProfilesWithWallets, SELECT * FROM profiles
SelectProfiles(i) ==
    /\ inv[i].pc = "selectProfiles"
    /\ \E ok \in D1Outcomes :
         /\ D1(ok)
         /\ IF ~ok THEN Set(i, Caught(inv[i]))
            ELSE Set(i, [inv[i] EXCEPT
                           !.toLoad = profiles,
                           !.profiles = <<>>,
                           !.pc = IF profiles = <<>> THEN "getEnabledLpPairs"
                                  ELSE "getWalletsByProfile"])
    /\ UNCHANGED <<Db, Clock, calc, join, links, accounts, group, started>>

\* lib/db getAllProfilesWithWallets, the loop body: getWalletsByProfile
LoadWallets(i) ==
    /\ inv[i].pc = "getWalletsByProfile"
    /\ \E ok \in D1Outcomes :
         /\ D1(ok)
         /\ IF ~ok THEN Set(i, Caught(inv[i]))
            ELSE LET profile == Head(inv[i].toLoad)
                     ws == getWalletsByProfile(profile.id)
                 IN  Set(i, [inv[i] EXCEPT
                               !.toLoad = Tail(@),
                               !.profiles =
                                   IF Len(ws) > 0
                                   THEN Append(@, [id |-> profile.id,
                                                   telegram_handle |-> profile.telegram_handle,
                                                   wallets |-> ws])
                                   ELSE @,
                               !.pc = IF Tail(inv[i].toLoad) = <<>> THEN "getEnabledLpPairs"
                                      ELSE "getWalletsByProfile"])
    /\ UNCHANGED <<Db, Clock, calc, join, links, accounts, group, started>>

\* line 72: getEnabledLpPairs
LoadLpPairs(i) ==
    /\ inv[i].pc = "getEnabledLpPairs"
    /\ \E ok \in D1Outcomes :
         /\ D1(ok)
         /\ IF ~ok THEN Set(i, Caught(inv[i]))
            ELSE Set(i, [inv[i] EXCEPT !.lpPairs = getEnabledLpPairs,
                                       !.pc = "getLastScreeningRun"])
    /\ UNCHANGED <<Db, Clock, calc, join, links, accounts, group, started>>

\* line 75: getLastScreeningRun, the baseline of the diff; with no such run
\* line 76 awaits nothing and line 90 reads the threshold next
LoadBaseline(i) ==
    /\ inv[i].pc = "getLastScreeningRun"
    /\ \E ok \in D1Outcomes :
         /\ D1(ok)
         /\ IF ~ok THEN Set(i, Caught(inv[i]))
            ELSE IF getLastScreeningRun = {}
                 THEN Set(i, [inv[i] EXCEPT !.baseline = 0, !.previousEligible = {},
                                            !.pc = "readThreshold"])
                 ELSE \E r \in getLastScreeningRun :
                        Set(i, [inv[i] EXCEPT !.baseline = r,
                                              !.pc = "getSnapshotsForRun"])
    /\ UNCHANGED <<Db, Clock, calc, join, links, accounts, group, started>>

\* lines 76-81: getSnapshotsForRun(lastRun.id) and the previously eligible
LoadPreviousSnapshots(i) ==
    /\ inv[i].pc = "getSnapshotsForRun"
    /\ \E ok \in D1Outcomes :
         /\ D1(ok)
         /\ IF ~ok THEN Set(i, Caught(inv[i]))
            ELSE Set(i, [inv[i] EXCEPT
                           !.previousEligible =
                               {p \in getSnapshotsForRun(inv[i].baseline) :
                                   profile_snapshots[<<inv[i].baseline, p>>].eligible = 1},
                           !.pc = "readThreshold"])
    /\ UNCHANGED <<Db, Clock, calc, join, links, accounts, group, started>>

\* lines 90-96: the threshold is read and the loop over the profiles starts
ReadThreshold(i) ==
    /\ inv[i].pc = "readThreshold"
    /\ \E ok \in D1Outcomes :
         /\ D1(ok)
         /\ IF ~ok THEN Set(i, Caught(inv[i]))
            ELSE LET value == SettingValue("eligibility_threshold_raw")
                 IN  Set(i, StartLoop([inv[i] EXCEPT
                               !.thresholdRaw = IF value = <<>> THEN DefaultThresholdRaw
                                                ELSE value]))
    /\ UNCHANGED <<Db, Clock, calc, join, links, accounts, group, started>>

\* line 133: the catch of the wallet's try block is entered with an error
WalletFailedMutAbort(l, error) == [l EXCEPT !.err = error, !.pc = "catch"]

WalletFailed(l, error) ==
    [l EXCEPT !.exposure = NoExposure, !.err = error, !.pc = "markWalletError"]

\* lines 108-113: getTotalChogExposure for the wallet, whatever the chain
\* answers; then updateWalletBalances is called, or the catch of line 133
ComputeExposure(i) ==
    /\ inv[i].pc = "getTotalChogExposure"
    /\ LET address == inv[i].profiles[inv[i].pi].wallets[inv[i].wi].address
           lpPairs == inv[i].lpPairs
       IN
       \E directRead \in DirectReads(address) :
       \E poolReads \in {f \in [1..Len(lpPairs) ->
                                UNION {PoolReads(lpPairs[k].pair_address, address)
                                          : k \in 1..Len(lpPairs)}] :
                            \A k \in 1..Len(lpPairs) :
                                f[k] \in PoolReads(lpPairs[k].pair_address, address)} :
         LET exposure == getTotalChogExposure(lpPairs, directRead, poolReads)
         IN  IF exposure.ok
             THEN Set(i, [inv[i] EXCEPT !.exposure = exposure,
                                        !.exposuresComputed = @ + 1,
                                        !.pc = "updateWalletBalances"])
             ELSE Set(i, WalletFailed(inv[i], RpcError))
    /\ UNCHANGED <<Db, Clock, calc, join, links, accounts, group, started, d1Failures>>

\* lines 124-132: the wallet is added to the profile's details and total
WalletDoneMutNoSum(l) ==
    LET wallet == l.profiles[l.pi].wallets[l.wi]
    IN  [l EXCEPT
           !.walletDetails =
               Append(@, [address |-> wallet.address,
                          directChog |-> toString(l.exposure.directBalance),
                          lpChog |-> toString(l.exposure.lpBalance),
                          totalChog |-> toString(l.exposure.totalBalance)]),
           !.exposure = NoExposure,
           !.walletsProcessed = @ + 1]

WalletDone(l) ==
    LET wallet == l.profiles[l.pi].wallets[l.wi]
    IN  [l EXCEPT
           !.walletDetails =
               Append(@, [address |-> wallet.address,
                          directChog |-> toString(l.exposure.directBalance),
                          lpChog |-> toString(l.exposure.lpBalance),
                          totalChog |-> toString(l.exposure.totalBalance)]),
           !.profileTotalChog = @ + l.exposure.totalBalance,
           !.exposure = NoExposure,
           !.walletsProcessed = @ + 1]

\* lines 116-132: updateWalletBalances (UPDATE wallets ... WHERE id = ?)
UpdateWalletBalances(i) ==
    /\ inv[i].pc = "updateWalletBalances"
    /\ LET wallet == inv[i].profiles[inv[i].pi].wallets[inv[i].wi]
           e == inv[i].exposure
       IN  \E ok \in D1Outcomes :
             /\ D1(ok)
             /\ IF ~ok
                THEN /\ Set(i, WalletFailed(inv[i], D1Error))
                     /\ UNCHANGED wallets
                ELSE /\ wallets' =
                           IF wallet.id \in DOMAIN wallets
                           THEN [wallets EXCEPT ![wallet.id] =
                                   [@ EXCEPT !.last_direct_chog_raw = toString(e.directBalance),
                                             !.last_lp_chog_raw = toString(e.lpBalance),
                                             !.last_total_chog_raw = toString(e.totalBalance),
                                             !.last_checked_at = now]]
                           ELSE wallets
                     /\ Set(i, NextWallet(WalletDone(inv[i])))
    /\ UNCHANGED <<settings, nextWalletId, screening_runs, profile_snapshots, Clock, calc, join, links, accounts, group, started>>

\* lines 133-139: UPDATE wallets SET status = 'error', error_reason = ?
\* with the mutant that sets last_checked_at too
MarkWalletErrorMutChecked(i) ==
    /\ inv[i].pc = "markWalletError"
    /\ LET wallet == inv[i].profiles[inv[i].pi].wallets[inv[i].wi]
       IN  \E ok \in D1Outcomes :
             /\ D1(ok)
             /\ IF ~ok
                THEN Set(i, Caught(inv[i])) /\ UNCHANGED wallets
                ELSE /\ wallets' =
                           IF wallet.id \in DOMAIN wallets
                           THEN [wallets EXCEPT ![wallet.id] =
                                   [@ EXCEPT !.status = "error", !.error_reason = inv[i].err,
                                             !.last_checked_at = now]]
                           ELSE wallets
                     /\ Set(i, NextWallet(inv[i]))
    /\ UNCHANGED <<settings, nextWalletId, screening_runs, profile_snapshots, Clock, calc, join, links, accounts, group, started>>

MarkWalletError(i) ==
    /\ inv[i].pc = "markWalletError"
    /\ LET wallet == inv[i].profiles[inv[i].pi].wallets[inv[i].wi]
       IN  \E ok \in D1Outcomes :
             /\ D1(ok)
             /\ IF ~ok
                THEN Set(i, Caught(inv[i])) /\ UNCHANGED wallets
                ELSE /\ wallets' =
                           IF wallet.id \in DOMAIN wallets
                           THEN [wallets EXCEPT ![wallet.id] =
                                   [@ EXCEPT !.status = "error", !.error_reason = inv[i].err]]
                           ELSE wallets
                     /\ Set(i, NextWallet(inv[i]))
    /\ UNCHANGED <<settings, nextWalletId, screening_runs, profile_snapshots, Clock, calc, join, links, accounts, group, started>>

\* lines 166-176: INSERT INTO profile_snapshots
InsertSnapshot(i) ==
    /\ inv[i].pc = "insertSnapshot"
    /\ LET key == <<inv[i].runId, inv[i].profiles[inv[i].pi].id>>
       IN  \E ok \in D1Outcomes :
             /\ D1(ok)
             /\ IF ~ok \/ key \in DOMAIN profile_snapshots
                THEN Set(i, Caught(inv[i])) /\ UNCHANGED profile_snapshots
                ELSE /\ profile_snapshots' = profile_snapshots @@
                           (key :> [total_chog_raw |-> toString(inv[i].profileTotalChog),
                                    eligible |-> IF inv[i].eligible THEN 1 ELSE 0,
                                    details_json |-> inv[i].walletDetails])
                     /\ Set(i, NextProfile(inv[i]))
    /\ UNCHANGED <<settings, wallets, nextWalletId, screening_runs, Clock, calc, join, links, accounts, group, started>>

\* lines 193-194: getGroupChatId, the setting or the env binding
GetGroupChatId(i) ==
    /\ inv[i].pc = "getGroupChatId"
    /\ \E ok \in D1Outcomes :
         /\ D1(ok)
         /\ IF ~ok THEN Set(i, Caught(inv[i]))
            ELSE LET chat == IF SettingValue("telegram_chat_id") = <<>>
                             THEN TELEGRAM_CHAT_ID ELSE "setting-chat"
                 IN  Set(i, [inv[i] EXCEPT
                               !.groupChatId = chat,
                               !.pc = IF TELEGRAM_BOT_TOKEN # "" /\ chat # ""
                                      THEN "readNotifications" ELSE "finish"])
    /\ UNCHANGED <<Db, Clock, calc, join, links, accounts, group, started>>

\* lines 196-213: bot_notifications_enabled
ReadNotificationsMutAlways(i) ==
    /\ inv[i].pc = "readNotifications"
    /\ \E ok \in D1Outcomes :
         /\ D1(ok)
         /\ IF ~ok THEN Set(i, Caught(inv[i]))
            ELSE Set(i, [inv[i] EXCEPT !.pc = "sendTelegramMessage"])
    /\ UNCHANGED <<Db, Clock, calc, join, links, accounts, group, started>>

ReadNotifications(i) ==
    /\ inv[i].pc = "readNotifications"
    /\ \E ok \in D1Outcomes :
         /\ D1(ok)
         /\ IF ~ok THEN Set(i, Caught(inv[i]))
            ELSE LET notificationsEnabled ==
                         SettingValue("bot_notifications_enabled") # <<"f", "a", "l", "s", "e">>
                 IN  Set(i, [inv[i] EXCEPT
                               !.pc = IF notificationsEnabled THEN "sendTelegramMessage"
                                      ELSE "finish"])
    /\ UNCHANGED <<Db, Clock, calc, join, links, accounts, group, started>>

\* lines 202-210: sendTelegramMessage, which catches its own failures
SendTelegramMessageMutThrows(i) ==
    /\ inv[i].pc = "sendTelegramMessage"
    /\ \E success \in BOOLEAN :
         IF success
         THEN Set(i, [inv[i] EXCEPT !.messageSent = TRUE, !.pc = "finish"])
         ELSE Set(i, [inv[i] EXCEPT !.err = "Telegram", !.pc = "catch"])
    /\ UNCHANGED <<Db, Clock, calc, join, links, accounts, group, started, d1Failures>>

SendTelegramMessage(i) ==
    /\ inv[i].pc = "sendTelegramMessage"
    /\ \E success \in BOOLEAN :
         Set(i, [inv[i] EXCEPT !.messageSent = success, !.pc = "finish"])
    /\ UNCHANGED <<Db, Clock, calc, join, links, accounts, group, started, d1Failures>>

\* lines 217-226: the run's row after UPDATE screening_runs SET finished_at,
\* status = 'success' and the counters, with the mutant that grades the run
RunSucceededMutPartial(row, l) ==
    [row EXCEPT !.finished_at = now,
                !.status = IF l.walletsProcessed < SeqSum([k \in 1..Len(l.profiles) |->
                                                            Len(l.profiles[k].wallets)])
                           THEN "partial" ELSE "success",
                !.profiles_processed = Len(l.profiles),
                !.wallets_processed = l.walletsProcessed,
                !.eligible_count = l.eligibleCount,
                !.message_sent = IF l.messageSent THEN 1 ELSE 0]

RunSucceededMutAllWallets(row, l) ==
    [row EXCEPT !.finished_at = now,
                !.status = "success",
                !.profiles_processed = Len(l.profiles),
                !.wallets_processed = SeqSum([k \in 1..Len(l.profiles) |->
                                                Len(l.profiles[k].wallets)]),
                !.eligible_count = l.eligibleCount,
                !.message_sent = IF l.messageSent THEN 1 ELSE 0]

RunSucceeded(row, l) ==
    [row EXCEPT !.finished_at = now,
                !.status = "success",
                !.profiles_processed = Len(l.profiles),
                !.wallets_processed = l.walletsProcessed,
                !.eligible_count = l.eligibleCount,
                !.message_sent = IF l.messageSent THEN 1 ELSE 0]

\* lines 216-235: UPDATE screening_runs SET status = 'success', and return
FinishSuccess(i) ==
    /\ inv[i].pc = "finish"
    /\ \E ok \in D1Outcomes :
         /\ D1(ok)
         /\ IF ~ok
            THEN Set(i, Caught(inv[i])) /\ UNCHANGED screening_runs
            ELSE /\ screening_runs' =
                       IF inv[i].runId \in DOMAIN screening_runs
                       THEN [screening_runs EXCEPT ![inv[i].runId] =
                               RunSucceeded(@, inv[i])]
                       ELSE screening_runs
                 /\ Set(i, [Ended(inv[i], "returned") EXCEPT
                              !.result = [runId |-> inv[i].runId,
                                          status |-> "success",
                                          profilesProcessed |-> Len(inv[i].profiles),
                                          walletsProcessed |-> inv[i].walletsProcessed,
                                          eligibleCount |-> inv[i].eligibleCount,
                                          messageSent |-> inv[i].messageSent,
                                          error |-> NULL]])
    /\ UNCHANGED <<settings, wallets, nextWalletId, profile_snapshots, Clock, calc, join, links, accounts, group, started>>

\* lines 236-254: the catch: UPDATE screening_runs SET status = 'error'; a
\* rejection of that UPDATE leaves runScreening through the throw
CatchError(i) ==
    /\ inv[i].pc = "catch"
    /\ \E ok \in D1Outcomes :
         /\ D1(ok)
         /\ IF ~ok
            THEN Set(i, Ended(inv[i], "threw")) /\ UNCHANGED screening_runs
            ELSE /\ screening_runs' =
                       IF inv[i].runId \in DOMAIN screening_runs
                       THEN [screening_runs EXCEPT ![inv[i].runId] =
                               [@ EXCEPT !.finished_at = now,
                                         !.status = "error",
                                         !.error = inv[i].err]]
                       ELSE screening_runs
                 /\ Set(i, [Ended(inv[i], "returned") EXCEPT
                              !.result = [NoResult EXCEPT !.runId = inv[i].runId,
                                                          !.status = "error",
                                                          !.error = inv[i].err]])
    /\ UNCHANGED <<settings, wallets, nextWalletId, profile_snapshots, Clock, calc, join, links, accounts, group, started>>

(***************************************************************************)
(* What runs beside the screening: the clock, the admin's settings, and    *)
(* the wallets the linking subsystem creates and deletes.                  *)
(***************************************************************************)
\* the clock, read by an invocation when it starts; max bounds its advances
Tick(max) ==
    /\ NoneRunning
    /\ now < max * ClockStepMs
    /\ now' = now + ClockStepMs
    /\ UNCHANGED <<Db, started, inv, d1Failures, calc, join, links, accounts, group>>

\* the values PUT /settings/:key is called with, for each key of the model
SettingValues(key) ==
    CASE key = "screening_interval_hours" -> IntervalValues
      [] key = "eligibility_threshold_raw" -> ThresholdValues
      [] key = "bot_notifications_enabled" ->
            {<<"t", "r", "u", "e">>, <<"f", "a", "l", "s", "e">>}
      [] key = "telegram_chat_id" -> NewChatIds

\* PUT /api/admin/settings/:key: INSERT OR REPLACE INTO settings, for a key
\* of the allowed list and a value that is not empty
PutSetting(keys) ==
    /\ \E key \in keys :
       \E value \in SettingValues(key) :
         /\ value # <<>>
         /\ settings' = [k \in DOMAIN settings \cup {key} |->
                            IF k = key THEN value ELSE settings[k]]
    /\ UNCHANGED <<wallets, nextWalletId, screening_runs, profile_snapshots,
                   Clock, calc, join, links, accounts, group, started, inv, d1Failures>>

\* lib/db createWallet, at the end of a link request that passed its checks:
\* INSERT INTO wallets, which idx_wallets_address rejects for a linked
\* address; max bounds the wallets of a behaviour
createWallet(max) ==
    /\ nextWalletId < max
    /\ \E profileId \in ProfileIds, address \in Addresses :
         /\ \A w \in DOMAIN wallets : wallets[w].address # address
         /\ nextWalletId' = nextWalletId + 1
         /\ wallets' = wallets @@
               (nextWalletId + 1 :>
                   [profile_id |-> profileId, address |-> address,
                    status |-> "verified", error_reason |-> NULL,
                    last_direct_chog_raw |-> NoText, last_lp_chog_raw |-> NoText,
                    last_total_chog_raw |-> NoText, last_checked_at |-> NoTime])
    /\ UNCHANGED <<settings, screening_runs, profile_snapshots, Clock, calc, join, links, accounts, group, started, inv,
                   d1Failures>>

\* lib/db deleteWallet, in an unlink request that passed its checks:
\* DELETE FROM wallets WHERE profile_id = ? AND lower(address) = ?
deleteWallet ==
    /\ \E w \in DOMAIN wallets :
         wallets' = [x \in DOMAIN wallets \ {w} |-> wallets[x]]
    /\ UNCHANGED <<settings, nextWalletId, screening_runs, profile_snapshots,
                   Clock, calc, join, links, accounts, group, started, inv, d1Failures>>

\* the steps of an invocation that finds no successful run
FirstStep(i) ==
    \/ GateLastRun(i) \/ InsertRun(i)
    \/ SelectProfiles(i) \/ LoadWallets(i) \/ LoadLpPairs(i)
    \/ LoadBaseline(i) \/ ReadThreshold(i)
    \/ ComputeExposure(i) \/ UpdateWalletBalances(i) \/ MarkWalletError(i)
    \/ InsertSnapshot(i) \/ GetGroupChatId(i) \/ ReadNotifications(i)
    \/ SendTelegramMessage(i) \/ FinishSuccess(i) \/ CatchError(i)

\* the steps of an invocation: those, and the two that follow the load of a
\* successful run
Step(i) ==
    \/ FirstStep(i) \/ GateInterval(i) \/ LoadPreviousSnapshots(i)

(***************************************************************************)
(* Spec: the history of the runs.  Invocations follow one another, by the  *)
(* cron trigger or by the admin; between two of them the clock advances,   *)
(* the admin changes the interval, a wallet is linked or unlinked.         *)
(***************************************************************************)
Next ==
    \/ scheduled(MaxInvocations) \/ runNow(MaxInvocations)
    \/ \E i \in Invocations : Step(i)
    \/ Tick(MaxTicks)
    \/ NoneRunning /\ PutSetting({"screening_interval_hours"})
    \/ NoneRunning /\ createWallet(MaxWalletIds)
    \/ NoneRunning /\ deleteWallet

Spec == Init /\ [][Next]_vars

(***************************************************************************)
(* SpecRun: one run and what happens beside it.  The admin changes the     *)
(* threshold and the notifications switch, wallets are linked and          *)
(* unlinked, before the run, between two of its awaits, and after it.      *)
(***************************************************************************)
NextRun ==
    \/ scheduled(MaxRunInvocations) \/ runNow(MaxRunInvocations)
    \/ \E i \in Invocations : FirstStep(i)
    \/ PutSetting({"eligibility_threshold_raw", "bot_notifications_enabled"})
    \/ createWallet(MaxRunWalletIds)
    \/ deleteWallet

SpecRun == Init /\ [][NextRun]_vars

(***************************************************************************)
(* SpecBaseline: a longer history of runs over wallets linked before the   *)
(* first of them, under the shipped settings.                              *)
(***************************************************************************)
NextBaseline ==
    \/ scheduled(MaxBaselineInvocations) \/ runNow(MaxBaselineInvocations)
    \/ \E i \in Invocations : Step(i)
    \/ Tick(MaxBaselineTicks)
    \/ started = 0 /\ createWallet(MaxWalletIds)

SpecBaseline == Init /\ [][NextBaseline]_vars

(***************************************************************************)
(* SpecOverlap: invocations that overlap.  The cron trigger hands           *)
(* runScreening(env) to ctx.waitUntil and the admin route awaits            *)
(* runScreening(c.env, true); neither waits for an invocation that is       *)
(* under way, so the awaits of two invocations interleave.                  *)
(***************************************************************************)
NextOverlap ==
    \/ Enter(FALSE, MaxOverlapInvocations) \/ Enter(TRUE, MaxOverlapInvocations)
    \/ \E i \in Invocations : Step(i)
    \/ NoneRunning /\ createWallet(MaxWalletIds)

SpecOverlap == Init /\ [][NextOverlap]_vars

(***************************************************************************)
(* SpecJoin: one run, over wallets linked before it, and the join requests *)
(* the bot answers before, during and after it.                            *)
(***************************************************************************)
\* the usernames join requests come from, lower-cased: those of the two
\* profiles, and one that no profile has
Usernames == {<<"a">>, <<"b">>, <<"c">>}

\* the rows of SELECT p.*, ps.total_chog_raw, ps.eligible FROM profiles p
\* LEFT JOIN profile_snapshots ps ON p.id = ps.profile_id WHERE
\* LOWER(REPLACE(p.telegram_handle, '@', '')) = ?: one per snapshot of a
\* matching profile, one with NULLs for a matching profile without snapshot
JoinRows(username) ==
    UNION {IF \E r \in DOMAIN screening_runs : <<r, profiles[k].id>> \in DOMAIN profile_snapshots
           THEN {[profile_id |-> profiles[k].id, run_id |-> r,
                  eligible |-> profile_snapshots[<<r, profiles[k].id>>].eligible] :
                    r \in {q \in DOMAIN screening_runs :
                              <<q, profiles[k].id>> \in DOMAIN profile_snapshots}}
           ELSE {[profile_id |-> profiles[k].id, run_id |-> 0, eligible |-> NoTime]} :
             k \in {j \in 1..Len(profiles) : StripAt(profiles[j].telegram_handle) = username}}

\* handleJoinRequest of the bot webhook: the row ORDER BY ps.run_id DESC
\* LIMIT 1 yields, and the answer.  Run ids are random UUIDs, so the row
\* with the greatest run id is any of the rows; no row: declined.
handleJoinRequest ==
    /\ \E username \in Usernames :
         IF JoinRows(username) = {}
         THEN join' = [NoJoin EXCEPT !.username = username]
         ELSE \E row \in JoinRows(username) :
                join' = [username |-> username, profile_id |-> row.profile_id,
                         run_id |-> row.run_id, eligible |-> row.eligible,
                         approved |-> row.eligible = 1]
    /\ UNCHANGED <<Db, Clock, calc, links, accounts, group, started, inv, d1Failures>>

NextJoin ==
    \/ scheduled(MaxRunInvocations) \/ runNow(MaxRunInvocations)
    \/ \E i \in Invocations : FirstStep(i)
    \/ started = 0 /\ createWallet(MaxRunWalletIds)
    \/ handleJoinRequest

SpecJoin == Init /\ [][NextJoin]_vars

(***************************************************************************)
(* SpecLink: link and unlink requests, each await of a link request being  *)
(* one step, so that two requests for one address pass the check of the    *)
(* first before either inserts.                                            *)
(***************************************************************************)
\* the addresses link requests carry: one in lower and in upper case, and
\* another
LinkAddresses == {<<"0", "x", "a">>, <<"0", "x", "A">>, <<"0", "x", "b">>}

\* String.prototype.toLowerCase and SQL lower(), on the characters of an
\* address
LowerChar(c) ==
    CASE c = "A" -> "a" [] c = "B" -> "b" [] c = "C" -> "c" [] c = "D" -> "d"
      [] c = "E" -> "e" [] c = "F" -> "f" [] c = "X" -> "x" [] OTHER -> c

toLowerCase(s) == [k \in 1..Len(s) |-> LowerChar(s[k])]

\* getWalletByAddress: the wallets WHERE lower(address) = the normalized one
getWalletByAddress(address) ==
    {w \in DOMAIN wallets : toLowerCase(wallets[w].address) = toLowerCase(address)}

\* CREATE UNIQUE INDEX idx_wallets_address ON wallets (lower(address)):
\* whether the index admits a row with the address
idx_wallets_addressMutAbsent(address) == TRUE

idx_wallets_address(address) ==
    \A w \in DOMAIN wallets : toLowerCase(wallets[w].address) # toLowerCase(address)

\* POST /api/wallets/link is received for a profile and an address; the
\* awaits up to the check of the address have passed
PostLink ==
    /\ Len(links) < MaxLinkRequests
    /\ \E profileId \in ProfileIds, address \in LinkAddresses :
         links' = Append(links, [pc |-> "getWalletByAddress", profile_id |-> profileId,
                                 address |-> address])
    /\ UNCHANGED <<Db, Clock, calc, join, accounts, group, started, inv, d1Failures>>

\* wallets.ts lines 84-91: getWalletByAddress, and 409 for a linked address
LinkCheckAddress(q) ==
    /\ q \in 1..Len(links)
    /\ links[q].pc = "getWalletByAddress"
    /\ links' = [links EXCEPT ![q].pc =
                    IF getWalletByAddress(links[q].address) # {} THEN "409"
                    ELSE "createWallet"]
    /\ UNCHANGED <<Db, Clock, calc, join, accounts, group, started, inv, d1Failures>>

\* wallets.ts lines 145-147: createWallet, INSERT INTO wallets with the
\* address in lower case; the INSERT the index refuses throws
LinkCreateWallet(q) ==
    /\ q \in 1..Len(links)
    /\ links[q].pc = "createWallet"
    /\ IF idx_wallets_address(toLowerCase(links[q].address))
       THEN /\ nextWalletId' = nextWalletId + 1
            /\ wallets' = wallets @@
                  (nextWalletId + 1 :>
                      [profile_id |-> links[q].profile_id,
                       address |-> toLowerCase(links[q].address),
                       status |-> "verified", error_reason |-> NULL,
                       last_direct_chog_raw |-> NoText, last_lp_chog_raw |-> NoText,
                       last_total_chog_raw |-> NoText, last_checked_at |-> NoTime])
            /\ links' = [links EXCEPT ![q].pc = "201"]
       ELSE /\ links' = [links EXCEPT ![q].pc = "500"]
            /\ UNCHANGED <<wallets, nextWalletId>>
    /\ UNCHANGED <<settings, screening_runs, profile_snapshots, Clock, calc, join, accounts, group,
                   started, inv, d1Failures>>

NextLink ==
    \/ PostLink
    \/ \E q \in 1..MaxLinkRequests : LinkCheckAddress(q) \/ LinkCreateWallet(q)
    \/ deleteWallet

SpecLink == Init /\ [][NextLink]_vars

(***************************************************************************)
(* SpecAccount: the requests on profiles, nonces and wallets (POST         *)
(* /api/profile/upsert and /recover, /api/siwe/nonce, /api/wallets/link    *)
(* and /unlink).  The worker serves several requests at a time: each await *)
(* of a handler on D1 is one step, and what a handler computes on its own  *)
(* variables between two of them (verifySecret, verifySiweSignature)       *)
(* belongs to the step of the await before; a request is received when its *)
(* handler does its first await.  A request that lacks a required field is *)
(* answered 400 before any await and is not modelled.                      *)
(***************************************************************************)
\* the edit secrets requests carry: two a client made up, and those
\* generateSecret has made, the k-th being unlike the others
ClientSecrets == {<<"client", 1>>, <<"client", 2>>}

generateSecret(k) == <<"generated", k>>

\* lib/crypto hashSecret: SHA-256, in hex; verifySecret compares the hashes
hashSecret(secret) == <<"sha256", secret>>

verifySecret(secret, hash) == hashSecret(secret) = hash

\* an absent edit_secret_hash of a request body
NoHash == <<>>

\* the edit_secret_hash a request body carries, when it carries one
ClientHashes == {hashSecret(secret) : secret \in ClientSecrets}

\* lib/crypto generateNonce, the k-th nonce being unlike the others; 0 is
\* a nonce that was never issued
generateNonce(k) == k

BogusNonce == 0

\* the handles requests carry: one name, with the '@' the web client puts
\* in front, and without it in another case; and one that is too short for
\* upsert
AccountHandles ==
    {<<"@", "a", "b", "c", "d", "e">>, <<"A", "b", "c", "d", "e">>}

ShortHandle == <<"a", "b">>

\* handle.toLowerCase().replace(/^@/, ''): the normalized handle
NormalizeHandle(handle) ==
    LET lowered == toLowerCase(handle)
    IN  IF lowered # <<>> /\ Head(lowered) = "@" THEN Tail(lowered) ELSE lowered

\* SQL replace(telegram_handle, '@', ''): every '@' is removed
ReplaceAt(handle) == SelectSeq(handle, LAMBDA c : c # "@")

\* lib/db getProfileByHandle: the profiles WHERE
\* lower(replace(telegram_handle, '@', '')) = the normalized handle
getProfileByHandle(handle) ==
    {id \in DOMAIN accounts.profiles :
        toLowerCase(ReplaceAt(accounts.profiles[id].telegram_handle))
            = NormalizeHandle(handle)}

\* CREATE UNIQUE INDEX idx_profiles_handle ON profiles
\* (lower(telegram_handle)): whether the index admits a row with the handle
idx_profiles_handle(handle) ==
    \A id \in DOMAIN accounts.profiles :
        toLowerCase(accounts.profiles[id].telegram_handle) # toLowerCase(handle)

\* FOREIGN KEY (profile_id) REFERENCES profiles(id), of wallets and of
\* nonces: whether D1 admits a row with the profile id
fk_profile_id(profileId) ==
    ~accounts.foreign_keys \/ profileId \in DOMAIN accounts.profiles

\* the addresses the requests carry, one of them with a capital, and
\* the address of the chain model that answers for them: one that holds no
\* share of a pool
AccountAddresses == {<<"0", "x", "A">>, <<"0", "x", "b">>}

ChainAddress(address) == "0xa1"

\* a SIWE message, of which the handlers read the address, the chain id,
\* the nonce and the expiration time, and a signature: the address whose
\* key made it
NoMessage == [address |-> <<>>, chainId |-> 0, nonce |-> BogusNonce,
              expirationTime |-> NoTime]

SiweMessages(nonce) ==
    [address : AccountAddresses, chainId : {MONAD_CHAIN_ID, 1},
     nonce : {nonce, BogusNonce}, expirationTime : {NoTime, 1}]

Signers == {<<"0", "x", "a">>, <<"0", "x", "b">>}

\* lib/siwe verifySiweSignature: verifySiweMessage recovers the signer and
\* compares it with the address of the message; then the chain id, the
\* nonce and the expiration time of the message
verifySiweSignature(message, signature, expectedChainId, expectedNonce) ==
    IF toLowerCase(signature) # toLowerCase(message.address)
    THEN [success |-> FALSE, address |-> <<>>]
    ELSE IF message.chainId # expectedChainId
    THEN [success |-> FALSE, address |-> <<>>]
    ELSE IF message.nonce # expectedNonce
    THEN [success |-> FALSE, address |-> <<>>]
    ELSE IF message.expirationTime # NoTime /\ message.expirationTime < now
    THEN [success |-> FALSE, address |-> <<>>]
    ELSE [success |-> TRUE, address |-> message.address]

\* the local variables of a handler that has not read a profile or a nonce
NoProfile == [id |-> NULL, edit_secret_hash |-> NoHash]
NoNonce == [profile_id |-> NULL, expires_at |-> NoTime, used_at |-> NoTime]

\* the slots of the worker, and the first that serves no request
Slots == 1..MaxInFlight

FreeSlot(s) ==
    /\ accounts.reqs[s] = NoRequest
    /\ \A t \in Slots : t < s => accounts.reqs[t] # NoRequest

\* the response of the handler of request r
Respond(r, status) == [kind |-> "response", pc |-> "none", to |-> r.kind, status |-> status]

\* a request of the kind is received, within the bound on the requests of
\* the kind in a behaviour
Received(acc, kind) == [acc EXCEPT !.received[kind] = @ + 1]

\* the handler in slot s goes on as x, or has responded: the slot is free
\* then
Serve(acc, s, x) ==
    IF x.kind = "response"
    THEN [acc EXCEPT !.reqs[s] = NoRequest]
    ELSE [acc EXCEPT !.reqs[s] = x]

\* the worker serves no request
NoneServed == \A s \in Slots : accounts.reqs[s] = NoRequest

\* the secrets a client can put in a request: those it made up, and those
\* a recovery has returned
KnownSecrets == ClientSecrets \cup accounts.returned

AccountFrame == <<settings, screening_runs, profile_snapshots, calc, join, links,
                  group, started, inv, d1Failures>>

(***************************************************************************)
(* POST /api/wallets/link (routes/wallets.ts lines 28-175).                *)
(***************************************************************************)
\* lines 79-82: verifySecret against the hash of the profile the handler
\* holds, and 403
LinkVerifySecret(r, profile) ==
    IF verifySecret(r.edit_secret, profile.edit_secret_hash)
    THEN [r EXCEPT !.profile = profile, !.pc = "getWalletByAddress"]
    ELSE Respond(r, "403")

\* the local variables of the handler, for a body with the profile id, the
\* edit secret and the nonce of the SIWE message (nonceMatch[1]); the other
\* fields of the body are drawn where the handler first reads them.
\* rotated is no variable of the code: the profiles whose hash the handler
\* has replaced by another, read by the properties only.
LinkRequest(profile_id, edit_secret, nonce) ==
    [kind |-> "link", pc |-> "getProfileById",
     profile_id |-> profile_id, edit_secret |-> edit_secret, nonce |-> nonce,
     telegram_handle |-> <<>>, edit_secret_hash |-> NoHash,
     address |-> <<>>, siwe_message |-> NoMessage, signature |-> <<>>,
     profile |-> NoProfile, isNewProfile |-> FALSE, existingByHandle |-> NULL,
     storedNonce |-> NoNonce, walletId |-> 0, rotated |-> {}]

\* lines 47-55: getProfileById; a profile that is not found needs the
\* handle and the hash of the body
PostWalletsLink(s) ==
    /\ FreeSlot(s)
    /\ accounts.received["link"] < MaxAccountLinks
    /\ \E profile_id \in ProfileIds, edit_secret \in KnownSecrets,
          nonce \in DOMAIN accounts.nonces \cup {BogusNonce} :
         LET r == LinkRequest(profile_id, edit_secret, nonce)
             acc == Received(accounts, "link")
         IN  IF profile_id \in DOMAIN accounts.profiles
             THEN accounts' = Serve(acc, s,
                      LinkVerifySecret(r, [id |-> profile_id,
                                           edit_secret_hash |->
                                              accounts.profiles[profile_id].edit_secret_hash]))
             ELSE \/ accounts' = Serve(acc, s, Respond(r, "400"))
                  \/ \E handle \in AccountHandles, hash \in ClientHashes :
                       accounts' = Serve(acc, s, [r EXCEPT !.telegram_handle = handle,
                                                           !.edit_secret_hash = hash,
                                                           !.pc = "getProfileByHandle"])
    /\ UNCHANGED <<wallets, nextWalletId, Clock, AccountFrame>>

\* lines 58-59: getProfileByHandle, the first row of the query
LinkGetProfileByHandle(s) ==
    LET r == accounts.reqs[s]
    IN  /\ r.kind = "link" /\ r.pc = "getProfileByHandle"
        /\ IF getProfileByHandle(r.telegram_handle) = {}
           THEN accounts' = Serve(accounts, s, [r EXCEPT !.pc = "createProfile"])
           ELSE \E id \in getProfileByHandle(r.telegram_handle) :
                  accounts' = Serve(accounts, s, [r EXCEPT !.existingByHandle = id,
                                                           !.pc = "updateProfileEditSecret"])
        /\ UNCHANGED <<wallets, nextWalletId, Clock, AccountFrame>>

\* lines 60-66: the profile with the handle is adopted, its hash replaced
\* by the hash of the body
LinkUpdateProfileEditSecret(s) ==
    LET r == accounts.reqs[s]
        id == r.existingByHandle
        replaced == accounts.profiles[id].edit_secret_hash # r.edit_secret_hash
    IN  /\ r.kind = "link" /\ r.pc = "updateProfileEditSecret"
        /\ accounts' =
              Serve([accounts EXCEPT !.profiles[id].edit_secret_hash = r.edit_secret_hash],
                    s,
                    LinkVerifySecret([r EXCEPT !.rotated =
                                                  IF replaced THEN @ \cup {id} ELSE @],
                                     [id |-> id, edit_secret_hash |-> r.edit_secret_hash]))
        /\ UNCHANGED <<wallets, nextWalletId, Clock, AccountFrame>>

\* line 69: createProfile, INSERT INTO profiles; the INSERT the primary key
\* or idx_profiles_handle refuses throws
LinkCreateProfile(s) ==
    LET r == accounts.reqs[s]
    IN  /\ r.kind = "link" /\ r.pc = "createProfile"
        /\ IF r.profile_id \notin DOMAIN accounts.profiles
                /\ idx_profiles_handle(r.telegram_handle)
           THEN accounts' =
                   Serve([accounts EXCEPT
                             !.profiles = @ @@ (r.profile_id :>
                                                   [telegram_handle |-> r.telegram_handle,
                                                    edit_secret_hash |-> r.edit_secret_hash])],
                         s, [r EXCEPT !.pc = "reloadProfile"])
           ELSE accounts' = Serve(accounts, s, Respond(r, "500"))
        /\ UNCHANGED <<wallets, nextWalletId, Clock, AccountFrame>>

\* lines 70-75: getProfileById of the profile just created
LinkReloadProfile(s) ==
    LET r == accounts.reqs[s]
    IN  /\ r.kind = "link" /\ r.pc = "reloadProfile"
        /\ accounts' = Serve(accounts, s,
              IF r.profile_id \notin DOMAIN accounts.profiles THEN Respond(r, "500")
              ELSE LinkVerifySecret([r EXCEPT !.isNewProfile = TRUE],
                                    [id |-> r.profile_id,
                                     edit_secret_hash |->
                                        accounts.profiles[r.profile_id].edit_secret_hash]))
        /\ UNCHANGED <<wallets, nextWalletId, Clock, AccountFrame>>

\* lines 85-91: getWalletByAddress, and 409 for a linked address
LinkGetWalletByAddress(s) ==
    LET r == accounts.reqs[s]
    IN  /\ r.kind = "link" /\ r.pc = "getWalletByAddress"
        /\ \E address \in AccountAddresses :
             accounts' = Serve(accounts, s,
                 IF getWalletByAddress(address) # {} THEN Respond(r, "409")
                 ELSE [r EXCEPT !.address = address, !.pc = "getNonce"])
        /\ UNCHANGED <<wallets, nextWalletId, Clock, AccountFrame>>

\* lines 110-116: whether the nonce row read is unused and unexpired
NonceIsFresh(storedNonce) ==
    /\ storedNonce.used_at = NoTime
    /\ storedNonce.expires_at >= now

\* lines 137-140: whether the verified address is the claimed one
AddressMatchesMutAny(verified, claimed) == TRUE

AddressMatches(verified, claimed) == toLowerCase(verified) = toLowerCase(claimed)

\* lines 100-140: getNonce, the checks of the nonce, verifySiweSignature
\* and the comparison of the addresses
LinkGetNonce(s) ==
    LET r == accounts.reqs[s]
    IN  /\ r.kind = "link" /\ r.pc = "getNonce"
        /\ IF r.nonce \notin DOMAIN accounts.nonces
           THEN accounts' = Serve(accounts, s, Respond(r, "400"))
           ELSE LET storedNonce == accounts.nonces[r.nonce]
                IN  IF storedNonce.profile_id # r.profile_id
                    THEN accounts' = Serve(accounts, s, Respond(r, "403"))
                    ELSE IF ~NonceIsFresh(storedNonce)
                    THEN accounts' = Serve(accounts, s, Respond(r, "400"))
                    ELSE \E message \in SiweMessages(r.nonce), signature \in Signers :
                           LET verifyResult ==
                                   verifySiweSignature(message, signature,
                                                       MONAD_CHAIN_ID, r.nonce)
                           IN  accounts' = Serve(accounts, s,
                                   IF ~verifyResult.success THEN Respond(r, "400")
                                   ELSE IF ~AddressMatches(verifyResult.address, r.address)
                                   THEN Respond(r, "400")
                                   ELSE [r EXCEPT !.storedNonce = storedNonce,
                                                  !.siwe_message = message,
                                                  !.signature = signature,
                                                  !.pc = "markNonceUsed"])
        /\ UNCHANGED <<wallets, nextWalletId, Clock, AccountFrame>>

\* line 143: markNonceUsed, UPDATE nonces SET used_at = ? WHERE nonce = ?
LinkMarkNonceUsed(s) ==
    LET r == accounts.reqs[s]
    IN  /\ r.kind = "link" /\ r.pc = "markNonceUsed"
        /\ accounts' = Serve([accounts EXCEPT !.nonces[r.nonce].used_at = now],
                             s, [r EXCEPT !.pc = "createWallet"])
        /\ UNCHANGED <<wallets, nextWalletId, Clock, AccountFrame>>

\* lines 146-147: createWallet, INSERT INTO wallets with the profile id of
\* the body and the address in lower case; the INSERT idx_wallets_address
\* or the foreign key refuses throws
LinkInsertWallet(s) ==
    LET r == accounts.reqs[s]
    IN  /\ r.kind = "link" /\ r.pc = "createWallet"
        /\ IF idx_wallets_address(toLowerCase(r.address)) /\ fk_profile_id(r.profile_id)
           THEN /\ nextWalletId' = nextWalletId + 1
                /\ wallets' = wallets @@
                      (nextWalletId + 1 :>
                          [profile_id |-> r.profile_id,
                           address |-> toLowerCase(r.address),
                           status |-> "verified", error_reason |-> NULL,
                           last_direct_chog_raw |-> NoText, last_lp_chog_raw |-> NoText,
                           last_total_chog_raw |-> NoText, last_checked_at |-> NoTime])
                /\ accounts' = Serve([accounts EXCEPT
                                         !.nonceOf = @ @@ (nextWalletId + 1 :> r.nonce)],
                                      s, [r EXCEPT !.walletId = nextWalletId + 1,
                                                   !.pc = "initialBalance"])
           ELSE /\ accounts' = Serve(accounts, s, Respond(r, "500"))
                /\ UNCHANGED <<wallets, nextWalletId>>
        /\ UNCHANGED <<Clock, AccountFrame>>

\* lines 150-174: the initial balance (getEnabledLpPairs,
\* getTotalChogExposure and updateWalletBalances, taken together), whose
\* failure is logged, and 201
LinkInitialBalance(s) ==
    LET r == accounts.reqs[s]
        address == ChainAddress(r.address)
        lpPairs == getEnabledLpPairs
    IN  /\ r.kind = "link" /\ r.pc = "initialBalance"
        /\ \E directRead \in DirectReads(address) :
           \E poolReads \in {f \in [1..Len(lpPairs) ->
                                    UNION {PoolReads(lpPairs[k].pair_address, address)
                                              : k \in 1..Len(lpPairs)}] :
                                \A k \in 1..Len(lpPairs) :
                                    f[k] \in PoolReads(lpPairs[k].pair_address, address)} :
             LET exposure == getTotalChogExposure(lpPairs, directRead, poolReads)
             IN  wallets' =
                     IF exposure.ok /\ r.walletId \in DOMAIN wallets
                     THEN [wallets EXCEPT ![r.walletId] =
                             [@ EXCEPT !.last_direct_chog_raw = toString(exposure.directBalance),
                                       !.last_lp_chog_raw = toString(exposure.lpBalance),
                                       !.last_total_chog_raw = toString(exposure.totalBalance),
                                       !.last_checked_at = now]]
                     ELSE wallets
        /\ accounts' = Serve(accounts, s, Respond(r, "201"))
        /\ UNCHANGED <<nextWalletId, Clock, AccountFrame>>

(***************************************************************************)
(* POST /api/wallets/unlink (routes/wallets.ts lines 181-211).             *)
(***************************************************************************)
\* lines 193-201: getProfileById, 404; verifySecret, 403
PostWalletsUnlink(s) ==
    /\ FreeSlot(s) /\ NoneServed
    /\ accounts.received["other"] < MaxAccountOthers
    /\ \E profile_id \in ProfileIds, edit_secret \in KnownSecrets :
         LET r == [kind |-> "unlink", pc |-> "deleteWallet",
                   profile_id |-> profile_id, edit_secret |-> edit_secret,
                   profile |-> NoProfile]
         IN  accounts' = Serve(Received(accounts, "other"), s,
                 IF profile_id \notin DOMAIN accounts.profiles THEN Respond(r, "404")
                 ELSE IF ~verifySecret(edit_secret,
                                       accounts.profiles[profile_id].edit_secret_hash)
                 THEN Respond(r, "403")
                 ELSE [r EXCEPT !.profile =
                          [id |-> profile_id,
                           edit_secret_hash |->
                              accounts.profiles[profile_id].edit_secret_hash]])
    /\ UNCHANGED <<wallets, nextWalletId, Clock, AccountFrame>>

\* lib/db deleteWallet: the rows of DELETE FROM wallets WHERE profile_id = ?
\* AND lower(address) = ?
DeletedRowsMutAnyProfile(profileId, address) ==
    {w \in DOMAIN wallets : toLowerCase(wallets[w].address) = toLowerCase(address)}

DeletedRows(profileId, address) ==
    {w \in DOMAIN wallets :
        /\ wallets[w].profile_id = profileId
        /\ toLowerCase(wallets[w].address) = toLowerCase(address)}

\* lines 204-210: deleteWallet for the address of the body, 404 when no
\* row was deleted
UnlinkDeleteWallet(s) ==
    LET r == accounts.reqs[s]
    IN  /\ r.kind = "unlink" /\ r.pc = "deleteWallet"
        /\ \E address \in AccountAddresses :
             LET deleted == DeletedRows(r.profile_id, address)
             IN  /\ wallets' = [w \in DOMAIN wallets \ deleted |-> wallets[w]]
                 /\ accounts' = Serve(accounts, s,
                       Respond(r, IF deleted = {} THEN "404" ELSE "200"))
        /\ UNCHANGED <<nextWalletId, Clock, AccountFrame>>

(***************************************************************************)
(* POST /api/profile/recover (routes/profile.ts lines 178-209).  The body  *)
(* is { address }.  signs is no field of it: whether the requester holds   *)
(* the key of the address, read by the properties only.                    *)
(***************************************************************************)
\* lib/db getProfileByWalletAddress, its first query: SELECT profile_id
\* FROM wallets WHERE lower(address) = ?
PostProfileRecover(s) ==
    /\ FreeSlot(s) /\ NoneServed
    /\ accounts.received["other"] < MaxAccountOthers
    /\ \E address \in AccountAddresses, signs \in BOOLEAN :
         LET r == [kind |-> "recover", pc |-> "getProfileById",
                   profile_id |-> NULL, address |-> address, signs |-> signs]
             acc == Received(accounts, "other")
         IN  IF getWalletByAddress(address) = {}
             THEN accounts' = Serve(acc, s, Respond(r, "404"))
             ELSE \E w \in getWalletByAddress(address) :
                    accounts' = Serve(acc, s,
                                      [r EXCEPT !.profile_id = wallets[w].profile_id])
    /\ UNCHANGED <<wallets, nextWalletId, Clock, AccountFrame>>

\* getProfileByWalletAddress, its second query: getProfileById; 404
RecoverGetProfileById(s) ==
    LET r == accounts.reqs[s]
    IN  /\ r.kind = "recover" /\ r.pc = "getProfileById"
        /\ accounts' = Serve(accounts, s,
              IF r.profile_id \notin DOMAIN accounts.profiles THEN Respond(r, "404")
              ELSE [r EXCEPT !.pc = "updateProfileEditSecret"])
        /\ UNCHANGED <<wallets, nextWalletId, Clock, AccountFrame>>

\* lines 193-208: generateSecret, updateProfileEditSecret (UPDATE profiles
\* SET edit_secret_hash = ? WHERE id = ?), and the response, which carries
\* the new secret
RecoverUpdateProfileEditSecret(s) ==
    LET r == accounts.reqs[s]
        newEditSecret == generateSecret(Cardinality(accounts.returned) + 1)
    IN  /\ r.kind = "recover" /\ r.pc = "updateProfileEditSecret"
        /\ accounts' =
              Serve([accounts EXCEPT
                        !.profiles[r.profile_id].edit_secret_hash =
                            hashSecret(newEditSecret),
                        !.returned = @ \cup {newEditSecret}],
                    s, Respond(r, "200"))
        /\ UNCHANGED <<wallets, nextWalletId, Clock, AccountFrame>>

(***************************************************************************)
(* POST /api/siwe/nonce (routes/siwe.ts lines 16-60).                      *)
(***************************************************************************)
\* lines 29-50: getProfileById; the hash of the profile, or of the body for
\* a profile that is not found, or 404; verifySecret, 403; the expiry
PostSiweNonce(s) ==
    /\ FreeSlot(s) /\ NoneServed
    /\ accounts.received["nonce"] < MaxAccountNonces
    /\ \E profile_id \in ProfileIds, edit_secret \in KnownSecrets,
          edit_secret_hash \in ClientHashes \cup {NoHash} :
         LET r == [kind |-> "nonce", pc |-> "createNonce", profile_id |-> profile_id,
                   expiresAt |-> now + NONCE_EXPIRY_MS]
             editSecretHash ==
                 IF profile_id \in DOMAIN accounts.profiles
                 THEN accounts.profiles[profile_id].edit_secret_hash
                 ELSE edit_secret_hash
         IN  accounts' = Serve(Received(accounts, "nonce"), s,
                 IF editSecretHash = NoHash THEN Respond(r, "404")
                 ELSE IF ~verifySecret(edit_secret, editSecretHash) THEN Respond(r, "403")
                 ELSE r)
    /\ UNCHANGED <<wallets, nextWalletId, Clock, AccountFrame>>

\* lines 49-59: createNonce, INSERT INTO nonces; the INSERT the foreign key
\* refuses throws
NonceCreateNonce(s) ==
    LET r == accounts.reqs[s]
        nonce == generateNonce(Cardinality(DOMAIN accounts.nonces) + 1)
    IN  /\ r.kind = "nonce" /\ r.pc = "createNonce"
        /\ accounts' =
              IF fk_profile_id(r.profile_id)
              THEN Serve([accounts EXCEPT
                            !.nonces = @ @@ (nonce :> [profile_id |-> r.profile_id,
                                                       expires_at |-> r.expiresAt,
                                                       used_at |-> NoTime])],
                         s, Respond(r, "200"))
              ELSE Serve(accounts, s, Respond(r, "500"))
        /\ UNCHANGED <<wallets, nextWalletId, Clock, AccountFrame>>

(***************************************************************************)
(* POST /api/profile/upsert (routes/profile.ts lines 71-148): the handle   *)
(* is checked, getProfileByHandle is awaited, and the profile found is     *)
(* returned (200), or a pending profile that is not persisted (201).       *)
(***************************************************************************)
\* lines 79-92: the handle without its '@', and whether it is a Telegram
\* username (5 to 32 letters, digits and underscores; the handles of the
\* model have none but letters after the '@')
UpsertHandle(telegram_handle) ==
    IF telegram_handle # <<>> /\ Head(telegram_handle) = "@"
    THEN Tail(telegram_handle) ELSE telegram_handle

IsUsername(handle) ==
    /\ Len(handle) >= 5 /\ Len(handle) <= 32
    /\ \A k \in 1..Len(handle) : handle[k] # "@"

PostProfileUpsert(s) ==
    /\ FreeSlot(s) /\ NoneServed
    /\ accounts.received["other"] < MaxAccountOthers
    /\ \E telegram_handle \in AccountHandles \cup {ShortHandle} :
         LET r == [kind |-> "upsert", pc |-> "getProfileByHandle"]
             handle == UpsertHandle(telegram_handle)
         IN  accounts' = Serve(Received(accounts, "other"), s,
                 IF ~IsUsername(handle) THEN Respond(r, "400")
                 ELSE IF getProfileByHandle(handle) # {} THEN Respond(r, "200")
                 ELSE Respond(r, "201"))
    /\ UNCHANGED <<wallets, nextWalletId, Clock, AccountFrame>>

(***************************************************************************)
(* The specification: D1 enforces the foreign keys of the schema, or does  *)
(* not.  Link requests are received while another request is served; a     *)
(* request of another kind is received, and the clock advances past the    *)
(* expiry of the nonces issued, while none is.                             *)
(***************************************************************************)
InitAccount ==
    /\ now = 0
    /\ settings = [k \in {"eligibility_threshold_raw", "screening_interval_hours",
                          "bot_notifications_enabled"} |->
                      CASE k = "eligibility_threshold_raw" -> DefaultThresholdRaw
                        [] k = "screening_interval_hours" -> DefaultIntervalHours
                        [] k = "bot_notifications_enabled" -> <<"t", "r", "u", "e">>]
    /\ wallets = <<>>
    /\ nextWalletId = 0
    /\ screening_runs = <<>>
    /\ profile_snapshots = <<>>
    /\ started = 0
    /\ inv = [i \in Invocations |-> Idle]
    /\ d1Failures = 0
    /\ calc = NoCall
    /\ join = NoJoin
    /\ links = <<>>
    /\ \E foreign_keys \in BOOLEAN :
         accounts = [NoAccounts EXCEPT !.foreign_keys = foreign_keys]
    /\ group = NoGroup

NextAccount ==
    \/ \E s \in Slots :
         \/ PostWalletsLink(s) \/ LinkGetProfileByHandle(s)
         \/ LinkUpdateProfileEditSecret(s) \/ LinkCreateProfile(s)
         \/ LinkReloadProfile(s) \/ LinkGetWalletByAddress(s) \/ LinkGetNonce(s)
         \/ LinkMarkNonceUsed(s) \/ LinkInsertWallet(s) \/ LinkInitialBalance(s)
         \/ PostWalletsUnlink(s) \/ UnlinkDeleteWallet(s)
         \/ PostProfileRecover(s) \/ RecoverGetProfileById(s)
         \/ RecoverUpdateProfileEditSecret(s)
         \/ PostSiweNonce(s) \/ NonceCreateNonce(s)
         \/ PostProfileUpsert(s)
    \/ NoneServed /\ Tick(MaxAccountTicks)

SpecAccount == InitAccount /\ [][NextAccount]_vars

(***************************************************************************)
(* routes/admin and the bot webhook: the members of the group, the lists   *)
(* of users to kick, the migration of the group and the admins.  Each      *)
(* await on D1 or on the Bot API is one step of the handler in a slot.     *)
(***************************************************************************)
GroupSlots == 1..MaxGroupInFlight

FreeGroupSlot(s) ==
    /\ group.reqs[s] = NoRequest
    /\ \A t \in GroupSlots : t < s => group.reqs[t] # NoRequest

\* the handler in slot s goes on as x, or has responded (x is NoRequest)
GroupServe(g, s, x) == [g EXCEPT !.reqs[s] = x]

GroupIdle == \A s \in GroupSlots : group.reqs[s] = NoRequest

GroupFrame == <<wallets, nextWalletId, screening_runs, profile_snapshots, calc, join,
                links, accounts, started, inv, d1Failures>>

\* the Telegram users of the model: 1 has the username of profile A, in
\* capitals; 2 a username no profile has; 3 has no username
TelegramUsers ==
    {[telegram_user_id |-> 1, username |-> <<"A">>],
     [telegram_user_id |-> 2, username |-> <<"c">>],
     [telegram_user_id |-> 3, username |-> NoText]}

\* POST /api/admin/group-members/import with one member in body.members:
\* SELECT telegram_user_id FROM group_members WHERE telegram_user_id = ?
PostGroupMembersImport(s, max) ==
    /\ FreeGroupSlot(s)
    /\ group.received < max
    /\ \E member \in TelegramUsers :
         group' = GroupServe([group EXCEPT !.received = @ + 1], s,
                     [kind |-> "import", pc |-> "write", member |-> member,
                      existing |-> member.telegram_user_id \in DOMAIN group.group_members])
    /\ UNCHANGED <<settings, Clock, GroupFrame>>

\* the UPDATE of an existing member (left_at = NULL), or the INSERT of a new
\* one, which the primary key refuses for a user another request has
\* inserted meanwhile: the handler throws then
ImportWrite(s) ==
    /\ group.reqs[s].kind = "import" /\ group.reqs[s].pc = "write"
    /\ LET r == group.reqs[s]
           id == r.member.telegram_user_id
           g == GroupServe(group, s, NoRequest)
       IN  group' =
              IF r.existing
              THEN IF id \in DOMAIN g.group_members
                   THEN [g EXCEPT !.group_members[id] =
                            [@ EXCEPT !.telegram_username = r.member.username,
                                      !.left_at = NoTime],
                                  !.lastEvent = [u \in DOMAIN @ \cup {id} |->
                                                    IF u = id THEN "in" ELSE @[u]]]
                   ELSE g
              ELSE IF id \in DOMAIN g.group_members
                   THEN g
                   ELSE [g EXCEPT !.group_members = @ @@
                            (id :> [telegram_username |-> r.member.username,
                                    left_at |-> NoTime]),
                                  !.lastEvent = [u \in DOMAIN @ \cup {id} |->
                                                    IF u = id THEN "in" ELSE @[u]]]
    /\ UNCHANGED <<settings, Clock, GroupFrame>>

\* CAST(text AS INTEGER) of a raw amount.  SQLite integers have 64 bits: an
\* amount of more than 2^63 - 1 casts to 2^63 - 1.  A unit of the model is
\* 5 * 10^23 raw, so every amount but 0 casts to 2^63 - 1, which lies
\* between 0 and one unit.  Casts are counted in halves of a unit, where
\* 2^63 - 1 takes the place of 1: the order of the amounts is kept.
CastInteger(text) == IF BigInt(text).v = 0 THEN 0 ELSE 1

\* the rows of the to_kick query: group_members LEFT JOIN profiles ON
\* LOWER(REPLACE(p.telegram_handle, '@', '')) = LOWER(gm.telegram_username)
\* LEFT JOIN profile_snapshots ps ON p.id = ps.profile_id (a row for each
\* snapshot of the profile; the two LEFT JOINs that follow add columns to
\* these rows and remove none) WHERE gm.left_at IS NULL AND (p.id IS NULL OR
\* CAST(COALESCE(ps.total_chog_raw, '0') AS INTEGER) < ?), the threshold
\* being bound as text and compared as a number
ToKickRows(threshold) ==
    LET gm == group.group_members
        Matches(u) == {k \in 1..Len(profiles) :
                          /\ gm[u].telegram_username # NoText
                          /\ toLowerCase(ReplaceAt(profiles[k].telegram_handle))
                               = toLowerCase(gm[u].telegram_username)}
        SnapshotsOf(id) == {key \in DOMAIN profile_snapshots : key[2] = id}
        Joined(u) ==
            IF Matches(u) = {}
            THEN {[telegram_user_id |-> u, profile_id |-> NULL, run_id |-> 0,
                   total_chog_raw |-> NoText]}
            ELSE UNION {IF SnapshotsOf(profiles[k].id) = {}
                        THEN {[telegram_user_id |-> u, profile_id |-> profiles[k].id,
                               run_id |-> 0, total_chog_raw |-> NoText]}
                        ELSE {[telegram_user_id |-> u, profile_id |-> profiles[k].id,
                               run_id |-> key[1],
                               total_chog_raw |-> profile_snapshots[key].total_chog_raw] :
                                 key \in SnapshotsOf(profiles[k].id)} :
                          k \in Matches(u)}
    IN  {row \in UNION {Joined(u) : u \in {v \in DOMAIN gm : gm[v].left_at = NoTime}} :
            \/ row.profile_id = NULL
            \/ CastInteger(IF row.total_chog_raw = NoText THEN <<"0">>
                           ELSE row.total_chog_raw) < 2 * threshold}

\* GET /api/admin/kick-add-lists: the threshold setting is read and made a
\* BigInt, which throws for a text that is no integer
GetKickAddLists(s, max) ==
    /\ FreeGroupSlot(s)
    /\ group.received < max
    /\ LET text == IF SettingValue("eligibility_threshold_raw") = <<>>
                   THEN DefaultThresholdRaw
                   ELSE SettingValue("eligibility_threshold_raw")
       IN  group' = GroupServe([group EXCEPT !.received = @ + 1], s,
                       IF BigInt(text).ok
                       THEN [kind |-> "kick-add-lists", pc |-> "toKick",
                             threshold |-> BigInt(text).v]
                       ELSE NoRequest)
    /\ UNCHANGED <<settings, Clock, GroupFrame>>

\* the to_kick query, and the response.  (The to_add query that follows
\* reads the same tables and adds the to_add list to the response.)
KickListsToKick(s) ==
    /\ group.reqs[s].kind = "kick-add-lists" /\ group.reqs[s].pc = "toKick"
    /\ group' = [GroupServe(group, s, NoRequest) EXCEPT
                    !.to_kick = [answered |-> TRUE,
                                 threshold |-> group.reqs[s].threshold,
                                 rows |-> ToKickRows(group.reqs[s].threshold)]]
    /\ UNCHANGED <<settings, Clock, GroupFrame>>

(***************************************************************************)
(* SpecGate: two runs, one after the other, over a wallet linked and       *)
(* members imported before the first; and one request of the admin for the *)
(* lists, or one join request, at any time between the steps.              *)
(***************************************************************************)
NextGate ==
    \/ scheduled(MaxGateInvocations) \/ runNow(MaxGateInvocations)
    \/ \E i \in Invocations : Step(i)
    \/ Tick(MaxGateTicks)
    \/ started = 0 /\ createWallet(MaxWalletIds)
    \/ \E s \in GroupSlots :
         \/ started = 0 /\ group.to_kick = NoList /\ join = NoJoin
               /\ PostGroupMembersImport(s, MaxGateImports)
         \/ ImportWrite(s)
         \/ join = NoJoin /\ group.to_kick = NoList /\ GroupIdle
               /\ GetKickAddLists(s, MaxGateImports + 1)
         \/ KickListsToKick(s)
    \/ join = NoJoin /\ group.to_kick = NoList /\ GroupIdle /\ handleJoinRequest

SpecGate == Init /\ [][NextGate]_vars

(***************************************************************************)
(* The bot webhook's member updates, the kicks, the migration of the group *)
(* and the admins.  The callers of the admin routes have passed the auth   *)
(* middleware (the legacy ADMIN_TOKEN or a session token).                 *)
(***************************************************************************)
\* String(update.chat.id) of a chat id, which is negative for a group
String(n) == IF n < 0 THEN <<"-">> \o toString(0 - n) ELSE toString(n)

\* getGroupChatId: setting?.value || envChatId
getGroupChatId ==
    IF SettingValue("telegram_chat_id") = <<>> THEN envChatId
    ELSE SettingValue("telegram_chat_id")

inGroupStatuses == {"creator", "administrator", "member", "restricted"}

\* the statuses the updates of the model carry
ChatMemberStatuses == {"member", "restricted", "left", "kicked"}

\* an event about the user has been processed: it put the user in the group
\* ("in") or did not ("out")
Happened(g, id, what) ==
    [g EXCEPT !.lastEvent = [u \in DOMAIN @ \cup {id} |-> IF u = id THEN what ELSE @[u]]]

\* 'Only track updates for our configured group': the chats whose updates
\* handleMemberUpdate does not return from at once
IsTrackedChat(chat) == String(chat) = envChatId

\* handleMemberUpdate of a chat_member update: the one await of the handler
\* is the statement of the branch taken
handleMemberUpdate(max) ==
    /\ group.received < max
    /\ \E chat \in ChatIdNumbers, user \in TelegramUsers,
          oldStatus \in ChatMemberStatuses, newStatus \in ChatMemberStatuses :
         LET id == user.telegram_user_id
             wasInGroup == oldStatus \in inGroupStatuses
             isInGroup == newStatus \in inGroupStatuses
             g == [group EXCEPT !.received = @ + 1]
             gm == group.group_members
             \* INSERT ... ON CONFLICT(telegram_user_id) DO UPDATE SET
             \* telegram_username = excluded.telegram_username and, when
             \* reset, left_at = NULL
             Upsert(reset) ==
                 IF id \in DOMAIN gm
                 THEN [gm EXCEPT ![id] =
                         [telegram_username |-> user.username,
                          left_at |-> IF reset THEN NoTime ELSE @.left_at]]
                 ELSE gm @@ (id :> [telegram_username |-> user.username,
                                    left_at |-> NoTime])
         IN  group' =
               IF ~IsTrackedChat(chat) THEN g
               ELSE Happened(
                      IF ~wasInGroup /\ isInGroup
                      THEN [g EXCEPT !.group_members = Upsert(TRUE)]
                      ELSE IF wasInGroup /\ ~isInGroup
                      THEN IF id \in DOMAIN gm
                           THEN [g EXCEPT !.group_members[id].left_at = now]
                           ELSE g
                      ELSE IF isInGroup
                      THEN [g EXCEPT !.group_members = Upsert(FALSE)]
                      ELSE g,
                      id, IF isInGroup THEN "in" ELSE "out")
    /\ UNCHANGED <<settings, Clock, GroupFrame>>

\* POST /api/admin/kick-users with one user in body.users: getGroupChatId,
\* and const now = Date.now()
PostKickUsers(s, max) ==
    /\ FreeGroupSlot(s)
    /\ group.received < max
    /\ \E user \in TelegramUsers :
         group' = GroupServe([group EXCEPT !.received = @ + 1], s,
                     [kind |-> "kick-users", pc |-> "kickChatMember",
                      telegram_user_id |-> user.telegram_user_id,
                      chatId |-> getGroupChatId, now |-> now])
    /\ UNCHANGED <<settings, Clock, GroupFrame>>

\* kickChatMember: banChatMember, and unbanChatMember when the ban is done;
\* the Bot API refuses the ban, or the fetch throws, for some users
KickChatMember(s) ==
    /\ group.reqs[s].kind = "kick-users" /\ group.reqs[s].pc = "kickChatMember"
    /\ \E success \in BOOLEAN :
         group' = GroupServe(group, s,
                     IF success THEN [group.reqs[s] EXCEPT !.pc = "markLeft"]
                     ELSE NoRequest)
    /\ UNCHANGED <<settings, Clock, GroupFrame>>

\* UPDATE group_members SET left_at = now WHERE telegram_user_id = ?
KickMarkLeft(s) ==
    /\ group.reqs[s].kind = "kick-users" /\ group.reqs[s].pc = "markLeft"
    /\ LET r == group.reqs[s]
           id == r.telegram_user_id
           g == GroupServe(group, s, NoRequest)
       IN  group' = Happened(IF id \in DOMAIN g.group_members
                             THEN [g EXCEPT !.group_members[id].left_at = r.now]
                             ELSE g,
                             id, "out")
    /\ UNCHANGED <<settings, Clock, GroupFrame>>

\* verifyAdminSession: the sessions WHERE session_token_hash = the hash of
\* the token AND verified_at IS NOT NULL AND expires_at > Date.now()
verifyAdminSession(token) ==
    {k \in 1..Len(group.admin_sessions) :
        /\ group.admin_sessions[k].session_token_hash = hashSecret(token)
        /\ group.admin_sessions[k].verified_at # NoTime
        /\ group.admin_sessions[k].expires_at > now}

\* SELECT ... FROM admins WHERE LOWER(telegram_handle) = ?
AdminsByHandle(handle) ==
    {a \in group.admins : toLowerCase(a.telegram_handle) = handle}

\* `migration:${handle}`, and telegram_handle LIKE 'migration:%'
MigrationPrefix == <<"m", "i", "g", "r", "a", "t", "i", "o", "n", ":">>

IsMigrationHandle(handle) ==
    /\ Len(handle) >= Len(MigrationPrefix)
    /\ SubSeq(handle, 1, Len(MigrationPrefix)) = MigrationPrefix

\* the session tokens and the one-time codes requests carry
SessionTokens == {<<"token", 1>>, <<"token", 2>>}

Otps == {"000001", "000002"}

\* POST /api/admin/group/request-migration-otp: verifyAdminSession, 403
PostRequestMigrationOtp(s, max) ==
    /\ FreeGroupSlot(s)
    /\ group.received < max
    /\ \E token \in SessionTokens :
         LET g == [group EXCEPT !.received = @ + 1]
         IN  IF verifyAdminSession(token) = {}
             THEN group' = g
             ELSE \E k \in verifyAdminSession(token) :
                    group' = GroupServe(g, s,
                        [kind |-> "request-migration-otp", pc |-> "admin",
                         handle |-> group.admin_sessions[k].telegram_handle])
    /\ UNCHANGED <<settings, Clock, GroupFrame>>

\* the admin of the handle, 403; its telegram_user_id, which is 0 here for
\* an admin who has not sent /admin to the bot, 400; generateOTP, hashSecret
\* and const now = Date.now()
RequestMigrationAdmin(s) ==
    /\ group.reqs[s].kind = "request-migration-otp" /\ group.reqs[s].pc = "admin"
    /\ LET r == group.reqs[s]
       IN  IF \A a \in AdminsByHandle(r.handle) : a.telegram_user_id = 0
           THEN group' = GroupServe(group, s, NoRequest)
           ELSE \E otp \in Otps :
                  group' = GroupServe(group, s,
                      [kind |-> "request-migration-otp", pc |-> "insertSession",
                       handle |-> r.handle, otpHash |-> hashSecret(otp), now |-> now])
    /\ UNCHANGED <<settings, Clock, GroupFrame>>

\* INSERT INTO admin_sessions (id, otp_hash, telegram_handle, created_at,
\* expires_at): the id of a session is its place in the table
RequestMigrationInsert(s) ==
    /\ group.reqs[s].kind = "request-migration-otp"
    /\ group.reqs[s].pc = "insertSession"
    /\ LET r == group.reqs[s]
       IN  group' = [GroupServe(group, s, [r EXCEPT !.pc = "sendOtp"]) EXCEPT
                        !.admin_sessions = Append(@,
                            [telegram_handle |-> MigrationPrefix \o r.handle,
                             otp_hash |-> r.otpHash,
                             expires_at |-> r.now + OTP_EXPIRY_MS,
                             verified_at |-> NoTime,
                             session_token_hash |-> NoText])]
    /\ UNCHANGED <<settings, Clock, GroupFrame>>

\* sendTelegramMessage of the code to the admin, and the response
RequestMigrationSend(s) ==
    /\ group.reqs[s].kind = "request-migration-otp" /\ group.reqs[s].pc = "sendOtp"
    /\ group' = GroupServe(group, s, NoRequest)
    /\ UNCHANGED <<settings, Clock, GroupFrame>>

\* /^-?\d+$/.test(newChatId)
IsChatIdFormat(text) ==
    LET digits == IF text # <<>> /\ Head(text) = "-" THEN Tail(text) ELSE text
    IN  digits # <<>> /\ \A k \in 1..Len(digits) : IsDigit(digits[k])

\* the session of the migration: WHERE id = ? AND verified_at IS NULL AND
\* expires_at > Date.now() AND telegram_handle LIKE 'migration:%'
MigrationSession(session_id) ==
    {k \in 1..Len(group.admin_sessions) :
        /\ k = session_id
        /\ group.admin_sessions[k].verified_at = NoTime
        /\ group.admin_sessions[k].expires_at > now
        /\ IsMigrationHandle(group.admin_sessions[k].telegram_handle)}

\* POST /api/admin/group/migrate: the session, 400; verifySecret, 400; the
\* format of the new chat id, 400
PostGroupMigrate(s, max) ==
    /\ FreeGroupSlot(s)
    /\ group.received < max
    /\ \E new_chat_id \in NewChatIds, otp \in Otps,
          session_id \in 1..(Len(group.admin_sessions) + 1) :
         LET g == [group EXCEPT !.received = @ + 1]
         IN  group' =
               IF MigrationSession(session_id) = {} THEN g
               ELSE IF ~verifySecret(otp, group.admin_sessions[session_id].otp_hash)
               THEN g
               ELSE IF ~IsChatIdFormat(TrimEnd(TrimStart(new_chat_id))) THEN g
               ELSE GroupServe(g, s,
                        [kind |-> "migrate", pc |-> "getChat",
                         newChatId |-> TrimEnd(TrimStart(new_chat_id)), session_id |-> session_id])
    /\ UNCHANGED <<settings, Clock, GroupFrame>>

\* getChat: whether the bot can access the chat, 400
MigrateGetChat(s) ==
    /\ group.reqs[s].kind = "migrate" /\ group.reqs[s].pc = "getChat"
    /\ \E success \in BOOLEAN :
         group' = GroupServe(group, s,
                     IF success THEN [group.reqs[s] EXCEPT !.pc = "saveSetting"]
                     ELSE NoRequest)
    /\ UNCHANGED <<settings, Clock, GroupFrame>>

\* INSERT OR REPLACE INTO settings (key, value) VALUES ('telegram_chat_id', ?)
MigrateSaveSetting(s) ==
    /\ group.reqs[s].kind = "migrate" /\ group.reqs[s].pc = "saveSetting"
    /\ LET r == group.reqs[s]
       IN  /\ settings' = [k \in DOMAIN settings \cup {"telegram_chat_id"} |->
                              IF k = "telegram_chat_id" THEN r.newChatId ELSE settings[k]]
           /\ group' = [GroupServe(group, s, [r EXCEPT !.pc = "consume"]) EXCEPT
                           !.migrated = [k \in DOMAIN @ \cup {r.session_id} |->
                                            IF k # r.session_id THEN @[k]
                                            ELSE IF k \in DOMAIN @ THEN @[k] + 1 ELSE 1]]
    /\ UNCHANGED <<Clock, GroupFrame>>

\* UPDATE admin_sessions SET verified_at = Date.now() WHERE id = ?
MigrateConsume(s) ==
    /\ group.reqs[s].kind = "migrate" /\ group.reqs[s].pc = "consume"
    /\ LET r == group.reqs[s]
       IN  group' = [GroupServe(group, s, [r EXCEPT !.pc = "welcome"]) EXCEPT
                        !.admin_sessions[r.session_id].verified_at = now]
    /\ UNCHANGED <<settings, Clock, GroupFrame>>

\* sendTelegramMessage of the welcome to the new group, and the response
MigrateWelcome(s) ==
    /\ group.reqs[s].kind = "migrate" /\ group.reqs[s].pc = "welcome"
    /\ group' = GroupServe(group, s, NoRequest)
    /\ UNCHANGED <<settings, Clock, GroupFrame>>

(***************************************************************************)
(* SpecGroup: the first admin has been bootstrapped, has registered with   *)
(* /admin and has logged in; then member updates, imports, kicks, requests *)
(* for a migration code, migrations and changes of the telegram_chat_id    *)
(* setting, two requests being served at a time, and the clock.            *)
(***************************************************************************)
AdminHandleA == <<"a", "b", "c", "d", "e">>
AdminHandleB == <<"e", "d", "c", "b", "a">>

\* the admin_sessions row of a login: verify-otp has set verified_at, the
\* hash of the token and the expiry of the session
LoginSession(handle, token) ==
    [telegram_handle |-> handle, otp_hash |-> hashSecret("000001"),
     expires_at |-> SESSION_EXPIRY_MS, verified_at |-> 0,
     session_token_hash |-> hashSecret(token)]

InitGroup ==
    /\ now = 0
    /\ settings = [k \in {"eligibility_threshold_raw", "screening_interval_hours",
                          "bot_notifications_enabled"} |->
                      CASE k = "eligibility_threshold_raw" -> DefaultThresholdRaw
                        [] k = "screening_interval_hours" -> DefaultIntervalHours
                        [] k = "bot_notifications_enabled" -> <<"t", "r", "u", "e">>]
    /\ wallets = <<>>
    /\ nextWalletId = 0
    /\ screening_runs = <<>>
    /\ profile_snapshots = <<>>
    /\ started = 0
    /\ inv = [i \in Invocations |-> Idle]
    /\ d1Failures = 0
    /\ calc = NoCall
    /\ join = NoJoin
    /\ links = <<>>
    /\ accounts = NoAccounts
    /\ group = [NoGroup EXCEPT
                  !.admins = {[id |-> 1, telegram_handle |-> AdminHandleA,
                               telegram_user_id |-> 1]},
                  !.nextAdminId = 1,
                  !.admin_sessions = <<LoginSession(AdminHandleA, <<"token", 1>>)>>]

NextGroup ==
    \/ handleMemberUpdate(MaxGroupRequests)
    \/ \E s \in GroupSlots :
         \/ PostGroupMembersImport(s, MaxGroupRequests) \/ ImportWrite(s)
         \/ PostKickUsers(s, MaxGroupRequests) \/ KickChatMember(s) \/ KickMarkLeft(s)
         \/ PostRequestMigrationOtp(s, MaxGroupRequests) \/ RequestMigrationAdmin(s)
         \/ RequestMigrationInsert(s) \/ RequestMigrationSend(s)
         \/ PostGroupMigrate(s, MaxGroupRequests) \/ MigrateGetChat(s)
         \/ MigrateSaveSetting(s) \/ MigrateConsume(s) \/ MigrateWelcome(s)
    \/ PutSetting({"telegram_chat_id"})
    \/ Tick(MaxGroupTicks)

SpecGroup == InitGroup /\ [][NextGroup]_vars

(***************************************************************************)
(* POST and DELETE /api/admin/admins.                                      *)
(***************************************************************************)
\* the handles POST /admins is called with: one of an admin, with the '@'
\* and in another case; a new one; and one that is too short
NewAdminHandles ==
    {<<"@", "A", "b", "c", "d", "e">>, <<"c", "c", "c", "c", "c">>, <<"a", "b">>}

\* /^[a-zA-Z0-9_]+$/.test(handle), on the characters of the model
IsAdminUsername(handle) ==
    /\ handle # <<>>
    /\ \A k \in 1..Len(handle) :
          \/ IsDigit(handle[k])
          \/ handle[k] \in {"a", "b", "c", "d", "e", "A", "B", "C", "D", "E", "_"}

\* POST /api/admin/admins: the handle is trimmed, lower-cased and loses a
\* leading '@'; its length and its characters, 400; the admin of the handle,
\* 400
PostAdmins(s, max) ==
    /\ FreeGroupSlot(s)
    /\ group.received < max
    /\ \E telegram_handle \in NewAdminHandles, token \in SessionTokens :
         LET handle == NormalizeHandle(TrimEnd(TrimStart(telegram_handle)))
             g == [group EXCEPT !.received = @ + 1]
         IN  group' =
               IF Len(handle) < 5 \/ Len(handle) > 32 \/ ~IsAdminUsername(handle) THEN g
               ELSE IF AdminsByHandle(handle) # {} THEN g
               ELSE GroupServe(g, s, [kind |-> "post-admins", pc |-> "session",
                                      handle |-> handle, token |-> token])
    /\ UNCHANGED <<settings, Clock, GroupFrame>>

\* verifyAdminSession of the token: addedBy stays null without a session
AdminsVerifySession(s) ==
    /\ group.reqs[s].kind = "post-admins" /\ group.reqs[s].pc = "session"
    /\ LET r == group.reqs[s]
       IN  IF verifyAdminSession(r.token) = {}
           THEN group' = GroupServe(group, s,
                            [kind |-> "post-admins", pc |-> "insert",
                             handle |-> r.handle, addedBy |-> 0])
           ELSE \E k \in verifyAdminSession(r.token) :
                  group' = GroupServe(group, s,
                      [kind |-> "post-admins", pc |-> "currentAdmin",
                       handle |-> r.handle,
                       session_handle |-> group.admin_sessions[k].telegram_handle])
    /\ UNCHANGED <<settings, Clock, GroupFrame>>

\* the admin of the session: addedBy = currentAdmin?.id
AdminsCurrentAdmin(s) ==
    /\ group.reqs[s].kind = "post-admins" /\ group.reqs[s].pc = "currentAdmin"
    /\ LET r == group.reqs[s]
           next(addedBy) == [kind |-> "post-admins", pc |-> "insert",
                             handle |-> r.handle, addedBy |-> addedBy]
       IN  IF AdminsByHandle(r.session_handle) = {}
           THEN group' = GroupServe(group, s, next(0))
           ELSE \E a \in AdminsByHandle(r.session_handle) :
                  group' = GroupServe(group, s, next(a.id))
    /\ UNCHANGED <<settings, Clock, GroupFrame>>

\* INSERT INTO admins (id, telegram_handle, added_by, added_at), which the
\* UNIQUE constraint on telegram_handle refuses for a handle in the table;
\* the id is generateId(), here the next number
AdminsInsert(s) ==
    /\ group.reqs[s].kind = "post-admins" /\ group.reqs[s].pc = "insert"
    /\ LET r == group.reqs[s]
           g == GroupServe(group, s, NoRequest)
       IN  group' =
             IF \E a \in group.admins : a.telegram_handle = r.handle THEN g
             ELSE [g EXCEPT !.admins = @ \cup {[id |-> g.nextAdminId + 1,
                                                telegram_handle |-> r.handle,
                                                telegram_user_id |-> 0]},
                            !.nextAdminId = @ + 1]
    /\ UNCHANGED <<settings, Clock, GroupFrame>>

\* DELETE /api/admin/admins/:id: verifyAdminSession, 403
DeleteAdmins(s, max) ==
    /\ FreeGroupSlot(s)
    /\ group.received < max
    /\ \E adminId \in 1..(group.nextAdminId + 1), token \in SessionTokens :
         LET g == [group EXCEPT !.received = @ + 1]
         IN  IF verifyAdminSession(token) = {}
             THEN group' = g
             ELSE \E k \in verifyAdminSession(token) :
                    group' = GroupServe(g, s,
                        [kind |-> "delete-admins", pc |-> "currentAdmin",
                         adminId |-> adminId,
                         session_handle |-> group.admin_sessions[k].telegram_handle])
    /\ UNCHANGED <<settings, Clock, GroupFrame>>

\* the admin of the session, 403; 'Cannot remove yourself', 400
DeleteCurrentAdmin(s) ==
    /\ group.reqs[s].kind = "delete-admins" /\ group.reqs[s].pc = "currentAdmin"
    /\ LET r == group.reqs[s]
       IN  group' = GroupServe(group, s,
                      IF \/ AdminsByHandle(r.session_handle) = {}
                         \/ \E a \in AdminsByHandle(r.session_handle) : a.id = r.adminId
                      THEN NoRequest
                      ELSE [r EXCEPT !.pc = "count"])
    /\ UNCHANGED <<settings, Clock, GroupFrame>>

\* SELECT COUNT(*) FROM admins: 'Cannot remove the last admin', 400
DeleteCount(s) ==
    /\ group.reqs[s].kind = "delete-admins" /\ group.reqs[s].pc = "count"
    /\ group' = GroupServe(group, s,
                   IF Cardinality(group.admins) <= 1 THEN NoRequest
                   ELSE [group.reqs[s] EXCEPT !.pc = "delete"])
    /\ UNCHANGED <<settings, Clock, GroupFrame>>

\* DELETE FROM admins WHERE id = ?
DeleteRemove(s) ==
    /\ group.reqs[s].kind = "delete-admins" /\ group.reqs[s].pc = "delete"
    /\ group' = [GroupServe(group, s, NoRequest) EXCEPT
                    !.admins = {a \in @ : a.id # group.reqs[s].adminId}]
    /\ UNCHANGED <<settings, Clock, GroupFrame>>

(***************************************************************************)
(* SpecAdmins: two admins have logged in; then requests to add and to      *)
(* remove admins, two being served at a time, and the clock, which ends    *)
(* the sessions after 24 hours.                                            *)
(***************************************************************************)
InitAdmins ==
    /\ now = 0
    /\ settings = [k \in {"eligibility_threshold_raw", "screening_interval_hours",
                          "bot_notifications_enabled"} |->
                      CASE k = "eligibility_threshold_raw" -> DefaultThresholdRaw
                        [] k = "screening_interval_hours" -> DefaultIntervalHours
                        [] k = "bot_notifications_enabled" -> <<"t", "r", "u", "e">>]
    /\ wallets = <<>>
    /\ nextWalletId = 0
    /\ screening_runs = <<>>
    /\ profile_snapshots = <<>>
    /\ started = 0
    /\ inv = [i \in Invocations |-> Idle]
    /\ d1Failures = 0
    /\ calc = NoCall
    /\ join = NoJoin
    /\ links = <<>>
    /\ accounts = NoAccounts
    /\ group = [NoGroup EXCEPT
                  !.admins = {[id |-> 1, telegram_handle |-> AdminHandleA,
                               telegram_user_id |-> 1],
                              [id |-> 2, telegram_handle |-> AdminHandleB,
                               telegram_user_id |-> 2]},
                  !.nextAdminId = 2,
                  !.admin_sessions = <<LoginSession(AdminHandleA, <<"token", 1>>),
                                       LoginSession(AdminHandleB, <<"token", 2>>)>>]

NextAdmins ==
    \/ \E s \in GroupSlots :
         \/ PostAdmins(s, MaxAdminRequests) \/ AdminsVerifySession(s)
         \/ AdminsCurrentAdmin(s) \/ AdminsInsert(s)
         \/ DeleteAdmins(s, MaxAdminRequests) \/ DeleteCurrentAdmin(s)
         \/ DeleteCount(s) \/ DeleteRemove(s)
    \/ Tick(MaxAdminTicks)

SpecAdmins == InitAdmins /\ [][NextAdmins]_vars

(***************************************************************************)
(* SpecCalc: one call of the exposure calculator, on what the chain may    *)
(* answer: any shares, supplies and reserves up to the bounds, any side,   *)
(* any read failing.                                                       *)
(***************************************************************************)
PoolNames == <<"pool0", "pool1", "pool2", "pool3">>

\* what the three batched reads of a pair return, amounts up to max
PoolAnswers(max) ==
    [ok : {TRUE}, userLpBalance : 0..max, totalSupply : 0..max,
     reserve0 : 0..max, reserve1 : 0..max]

FailedPoolRead ==
    [ok |-> FALSE, userLpBalance |-> 0, totalSupply |-> 0, reserve0 |-> 0, reserve1 |-> 0]

\* the calls of getLpChogExposure: a pair, and the answers of its reads
LpCalls ==
    {[fn |-> "getLpChogExposure", pc |-> "called",
      lpPair |-> [pair_address |-> PoolNames[1], chog_side |-> side, enabled |-> 1],
      read |-> read] :
        side \in {0, 1}, read \in PoolAnswers(MaxLpAmount)}

\* the lists of n pairs, with the outcomes of their reads
PairLists(n) ==
    {[k \in 1..n |-> [pair_address |-> PoolNames[k], chog_side |-> sides[k], enabled |-> 1]] :
        sides \in [1..n -> {0, 1}]}

ReadLists(n) == [1..n -> PoolAnswers(MaxPoolAmount) \cup {FailedPoolRead}]

\* the outcomes of the direct-balance read
DirectAnswers ==
    {[ok |-> FALSE, v |-> 0]} \cup {[ok |-> TRUE, v |-> v] : v \in 0..MaxDirect}

\* a call of getTotalChogExposure: the pairs, the outcome of the
\* direct-balance read and the outcomes of the reads of each pair
TotalCall(lpPairs, directRead, poolReads) ==
    [fn |-> "getTotalChogExposure", pc |-> "called",
     lpPairs |-> lpPairs, directRead |-> directRead, poolReads |-> poolReads]

\* the profiles a run ranks: profile k has the handle '@k'
RankedProfiles(n) ==
    [k \in 1..n |-> [id |-> k, telegram_handle |-> <<"@">> \o toString(k), wallets |-> <<>>]]

\* lines 142-163 for the profiles k.. of the loop, totals[k] being the
\* aggregate of profile k, then lines 178-180
RECURSIVE ClassifyAndRank(_, _, _)
ClassifyAndRank(l, totals, k) ==
    IF k > Len(totals) THEN AfterLoop(l)
    ELSE ClassifyAndRank(CheckEligibility([l EXCEPT !.pi = k,
                                                    !.profileTotalChog = totals[k]]),
                         totals, k + 1)

\* the aggregates of the profiles of a run of n profiles: any up to the
\* bound in a short run, any that reaches the shipped threshold in a long one
RankedTotals(n) ==
    (IF n <= MaxMixedProfiles THEN 1 ELSE BigInt(DefaultThresholdRaw).v)..MaxLeaderTotal

InitCalc ==
    /\ \/ calc \in LpCalls
       \/ \E n \in 0..MaxLeaderProfiles :
            \E totals \in [1..n -> RankedTotals(n)] :
                calc = [fn |-> "topEligible", pc |-> "called", totals |-> totals]
       \/ \E n \in 0..MaxCalcPools :
            \E lpPairs \in PairLists(n), directRead \in DirectAnswers,
               poolReads \in ReadLists(n) :
                 calc = TotalCall(lpPairs, directRead, poolReads)
    /\ now = 0
    /\ settings = <<>>
    /\ wallets = <<>>
    /\ nextWalletId = 0
    /\ screening_runs = <<>>
    /\ profile_snapshots = <<>>
    /\ started = 0
    /\ inv = [i \in Invocations |-> Idle]
    /\ d1Failures = 0
    /\ join = NoJoin
    /\ links = <<>>
    /\ accounts = NoAccounts
    /\ group = NoGroup

CallGetLpChogExposure ==
    /\ calc.fn = "getLpChogExposure" /\ calc.pc = "called"
    /\ calc' = [fn |-> calc.fn, pc |-> "returned", lpPair |-> calc.lpPair,
                read |-> calc.read,
                result |-> getLpChogExposure(calc.lpPair, calc.read)]
    /\ UNCHANGED <<Db, Clock, started, inv, d1Failures, join, links, accounts, group>>

CallGetTotalChogExposure ==
    /\ calc.fn = "getTotalChogExposure" /\ calc.pc = "called"
    /\ calc' = [fn |-> calc.fn, pc |-> "returned", lpPairs |-> calc.lpPairs,
                directRead |-> calc.directRead, poolReads |-> calc.poolReads,
                result |-> getTotalChogExposure(calc.lpPairs, calc.directRead,
                                                calc.poolReads)]
    /\ UNCHANGED <<Db, Clock, started, inv, d1Failures, join, links, accounts, group>>

\* screening.ts lines 142-180 of a run whose profiles have the aggregates
\* calc.totals, under the shipped threshold
RankEligible ==
    /\ calc.fn = "topEligible" /\ calc.pc = "called"
    /\ LET l == ClassifyAndRank([Idle EXCEPT
                                   !.profiles = RankedProfiles(Len(calc.totals)),
                                   !.thresholdRaw = DefaultThresholdRaw],
                                calc.totals, 1)
       IN  calc' = [fn |-> calc.fn, pc |-> "returned", totals |-> calc.totals,
                    allEligible |-> l.allEligible, topEligible |-> l.topEligible]
    /\ UNCHANGED <<Db, Clock, started, inv, d1Failures, join, links, accounts, group>>

NextCalc == CallGetLpChogExposure \/ CallGetTotalChogExposure \/ RankEligible

SpecCalc == InitCalc /\ [][NextCalc]_vars

(***************************************************************************)
(* Properties.  What they read of an invocation are its local variables    *)
(* while it runs, and of a run its row and its snapshots.                  *)
(***************************************************************************)
\* the awaits after the loop over the profiles
AfterLoopPcs == {"getGroupChatId", "readNotifications", "sendTelegramMessage", "finish"}

Value(text) == BigInt(text).v

DetailOf(details, address) ==
    {k \in 1..Len(details) : details[k].address = address}

DetailTotals(details) == [k \in 1..Len(details) |-> Value(details[k].totalChog)]

\* a snapshot's aggregate is the sum of the totals of the wallets listed in it
SnapshotsAddUp ==
    \A key \in DOMAIN profile_snapshots :
        Value(profile_snapshots[key].total_chog_raw)
            = SeqSum(DetailTotals(profile_snapshots[key].details_json))

\* the profile whose snapshot is about to be written: all its wallets have
\* been visited, the aggregate is the sum over the listed wallets, a listed
\* wallet has its cached balances updated to the listed total, and a wallet
\* that is not listed has status error with one of the given reasons
ProfileAggregated(l, reasons) ==
    LET p == l.profiles[l.pi]
    IN  /\ l.wi = Len(p.wallets)
        /\ l.profileTotalChog = SeqSum(DetailTotals(l.walletDetails))
        /\ Value(toString(l.profileTotalChog)) = l.profileTotalChog
        /\ \A k \in 1..Len(p.wallets) :
              LET w == p.wallets[k]
                  listed == DetailOf(l.walletDetails, w.address)
              IN  w.id \in DOMAIN wallets =>
                    IF listed # {}
                    THEN \A d \in listed :
                           wallets[w.id].last_total_chog_raw = l.walletDetails[d].totalChog
                    ELSE /\ wallets[w.id].status = "error"
                         /\ wallets[w.id].error_reason \in reasons

\* after the loop every loaded profile has its snapshot
AllProfilesProcessed(i) ==
    \A k \in 1..Len(inv[i].profiles) :
        <<inv[i].runId, inv[i].profiles[k].id>> \in DOMAIN profile_snapshots

ExecutingPcs ==
    {"insertRun", "selectProfiles", "getWalletsByProfile", "getEnabledLpPairs",
     "getLastScreeningRun", "getSnapshotsForRun", "readThreshold",
     "getTotalChogExposure", "updateWalletBalances", "markWalletError",
     "insertSnapshot", "catch"} \cup AfterLoopPcs

\* the interval setting as the run reads it: the value, '24' when absent
ConfiguredInterval ==
    IF SettingValue("screening_interval_hours") = <<>> THEN DefaultIntervalHours
    ELSE SettingValue("screening_interval_hours")

\* a decimal number of hours with at most one fractional digit, and the
\* tenths of an hour it denotes
IsDecimal(s) ==
    LET whole == DigitPrefix(s)
        rest == SubSeq(s, Len(whole) + 1, Len(s))
    IN  /\ whole # <<>>
        /\ rest = <<>> \/ (Len(rest) = 2 /\ rest[1] = "." /\ IsDigit(rest[2]))

Tenths(s) ==
    LET whole == DigitPrefix(s)
        rest == SubSeq(s, Len(whole) + 1, Len(s))
    IN  10 * DigitsValue(whole, 0) + (IF rest = <<>> THEN 0 ELSE DigitVal(rest[2]))

\* C3 as stated: a forced invocation executes; a non-forced one executes
\* when no run has status success, and otherwise exactly when the time since
\* the start of the most recent success run is at least the configured
\* number of hours; a skipped invocation creates no run record.
C3GateAsConfigured ==
    [][\A i \in Invocations :
         LET l == inv[i]
             m == inv'[i]
             elapsedTenths == 10 * (l.startedAt - l.lastRunStartedAt)
         IN  /\ (l.pc = "idle" /\ m.pc # "idle" /\ m.force) => m.pc = "insertRun"
             /\ (l.pc = "gateLastRun" /\ m.pc = "insertRun")
                    => getLastScreeningRun = {}
             /\ (l.pc = "gateLastRun" /\ m.pc = "gateInterval")
                    => \E r \in getLastScreeningRun :
                          m.lastRunStartedAt = screening_runs[r].started_at
             /\ (l.pc = "gateInterval" /\ IsDecimal(ConfiguredInterval)) =>
                    /\ m.pc = "insertRun"
                          => elapsedTenths >= Tenths(ConfiguredInterval) * MsPerHour
                    /\ m.pc = "returned"
                          => /\ elapsedTenths < Tenths(ConfiguredInterval) * MsPerHour
                             /\ UNCHANGED screening_runs
    ]_vars

\* the start of the most recent success run, as an invocation that has done
\* its first read of the interval check holds it
HoldsLatestSuccess(i) ==
    IF getLastScreeningRun = {} THEN inv[i].lastRunStartedAt = NoTime
    ELSE \E r \in getLastScreeningRun :
            inv[i].lastRunStartedAt = screening_runs[r].started_at

EligibleIn(runId) ==
    {p \in getSnapshotsForRun(runId) : profile_snapshots[<<runId, p>>].eligible = 1}

\* the eligible set of the baseline of an invocation, empty with no baseline
BaselineEligible(i) ==
    IF inv[i].baseline = 0 THEN {} ELSE EligibleIn(inv[i].baseline)

HandleOf(profileId) ==
    StripAt((CHOOSE k \in Range(profiles) : k.id = profileId).telegram_handle)

Handles(profileIds) == {HandleOf(p) : p \in profileIds}

\* C5: after the loop, the newly-eligible list of the summary holds exactly
\* the profiles eligible in this run and not in the baseline's eligible set,
\* each once; with no baseline, every profile eligible in this run.
C5NewlyEligibleIsDifference ==
    \A i \in Invocations :
        inv[i].pc \in AfterLoopPcs =>
            /\ Range(inv[i].newlyEligible)
                  = Handles(EligibleIn(inv[i].runId) \ BaselineEligible(i))
            /\ Len(inv[i].newlyEligible)
                  = Cardinality(EligibleIn(inv[i].runId) \ BaselineEligible(i))

\* a run with a baseline in which the profile was not eligible reports it as
\* newly eligible
C5Witness ==
    \E i \in Invocations :
        /\ inv[i].pc \in AfterLoopPcs
        /\ inv[i].baseline # 0
        /\ getSnapshotsForRun(inv[i].baseline) # {}
        /\ inv[i].newlyEligible # <<>>

\* C6 as stated: after the loop, the dropped list of the summary holds
\* exactly the profiles of the baseline's eligible set that are not eligible
\* in this run, those without a linked wallet included.
C6DroppedIsDifference ==
    \A i \in Invocations :
        inv[i].pc \in AfterLoopPcs =>
            Range(inv[i].droppedEligible)
                = Handles(BaselineEligible(i) \ EligibleIn(inv[i].runId))

\* the awaits that follow the load of the baseline
AfterBaselinePcs ==
    (ExecutingPcs \ {"insertRun", "selectProfiles", "getWalletsByProfile",
                     "getEnabledLpPairs", "getLastScreeningRun", "catch"})

\* C7: the baseline of a run is a run with status success, other than the
\* run itself, whose start time no other success run exceeds; a run has no
\* baseline only when no run has status success.
C7BaselineIsLatestSuccess ==
    \A i \in Invocations :
        inv[i].pc \in AfterBaselinePcs =>
            IF inv[i].baseline = 0
            THEN \A r \in DOMAIN screening_runs : screening_runs[r].status # "success"
            ELSE /\ inv[i].baseline # inv[i].runId
                 /\ inv[i].baseline \in DOMAIN screening_runs
                 /\ screening_runs[inv[i].baseline].status = "success"
                 /\ \A r \in DOMAIN screening_runs :
                       screening_runs[r].status = "success"
                          => screening_runs[r].started_at
                                <= screening_runs[inv[i].baseline].started_at

\* a run diffs against the later of two success runs, and a run that ended
\* error or is left running is as recent as its baseline
C7Witness ==
    \E i \in Invocations :
        /\ inv[i].pc \in AfterBaselinePcs
        /\ inv[i].baseline # 0
        /\ \E r \in DOMAIN screening_runs :
              /\ r \notin {i, inv[i].baseline}
              /\ \/ /\ screening_runs[r].status = "success"
                    /\ screening_runs[r].started_at
                          < screening_runs[inv[i].baseline].started_at
                 \/ /\ screening_runs[r].status # "success"
                    /\ screening_runs[r].started_at
                          >= screening_runs[inv[i].baseline].started_at

\* C8: a run's row is created with status running; it changes once, to
\* status success or error; a row whose status is success or error is never
\* changed, and no row is removed.
C8TerminalOnce ==
    [][\A r \in DOMAIN screening_runs' :
         IF r \in DOMAIN screening_runs
         THEN \/ screening_runs'[r] = screening_runs[r]
              \/ /\ screening_runs[r].status = "running"
                 /\ screening_runs'[r].status \in {"success", "error"}
         ELSE screening_runs'[r].status = "running"
       /\ DOMAIN screening_runs \subseteq DOMAIN screening_runs'
    ]_vars

\* one run has ended success with a wallet left out, another has ended error
C8Witness ==
    \E r, q \in DOMAIN screening_runs :
        /\ screening_runs[r].status = "success"
        /\ screening_runs[r].profiles_processed > screening_runs[r].wallets_processed
        /\ screening_runs[q].status = "error"

\* C9 as stated: no run is still running once its invocation has returned
\* or thrown.
C9NoRunLeftRunning ==
    \A i \in Invocations :
        (inv[i].pc \in {"returned", "threw"} /\ i \in DOMAIN screening_runs)
            => screening_runs[i].status # "running"

\* the awaits of the loop over the profiles
LoopPcs == {"getTotalChogExposure", "updateWalletBalances", "markWalletError",
            "insertSnapshot"}

\* the threshold setting as a run reads it: the value, the default when absent
ConfiguredThreshold ==
    IF SettingValue("eligibility_threshold_raw") = <<>> THEN DefaultThresholdRaw
    ELSE SettingValue("eligibility_threshold_raw")

Floor(a, b) == CHOOSE q \in 0..a : q * b <= a /\ a < (q + 1) * b

\* the contribution of a pool, as the specification defines it
Contribution(lpPair, read) ==
    IF read.userLpBalance = 0 \/ read.totalSupply = 0 THEN 0
    ELSE Floor((IF lpPair.chog_side = 0 THEN read.reserve0 ELSE read.reserve1)
                   * read.userLpBalance,
               read.totalSupply)

\* C12: the contribution getLpChogExposure returns is 0 when the share
\* balance or the total supply is 0, and otherwise the floor of
\* reserve * shareBalance / totalSupply, the reserve being reserve0 when the
\* pool's configured side is 0 and reserve1 when it is 1.
C12ContributionIsFloorOfShare ==
    (calc.fn = "getLpChogExposure" /\ calc.pc = "returned")
        => /\ calc.result.chogUnderlying = Contribution(calc.lpPair, calc.read)
           /\ (calc.read.userLpBalance = 0 \/ calc.read.totalSupply = 0)
                  => calc.result.chogUnderlying = 0

\* the side is 1, the two reserves differ, and the division leaves a
\* remainder
C12Witness ==
    /\ calc.fn = "getLpChogExposure" /\ calc.pc = "returned"
    /\ calc.lpPair.chog_side = 1
    /\ calc.read.reserve0 # calc.read.reserve1
    /\ calc.result.chogUnderlying > 0
    /\ calc.result.chogUnderlying * calc.read.totalSupply
          < calc.read.reserve1 * calc.read.userLpBalance

\* the contributions of the pools of a call whose reads succeeded, 0 for
\* the others
Contributions(lpPairs, poolReads) ==
    [k \in 1..Len(lpPairs) |->
        IF poolReads[k].ok THEN Contribution(lpPairs[k], poolReads[k]) ELSE 0]

\* C13: when the direct-balance read succeeds, getTotalChogExposure returns
\* total = direct + the sum of the contributions of exactly the pools whose
\* reads succeeded; a pool whose read threw is in neither the total nor the
\* breakdown, and a pool that contributes is in the breakdown with its
\* contribution whatever the other pools did.  When the direct-balance read
\* fails there is no result.
C13TotalIsDirectPlusPools ==
    (calc.fn = "getTotalChogExposure" /\ calc.pc = "returned")
        => LET r == calc.result
               c == Contributions(calc.lpPairs, calc.poolReads)
           IN  IF ~calc.directRead.ok THEN ~r.ok
               ELSE /\ r.ok
                    /\ r.directBalance = calc.directRead.v
                    /\ r.lpBalance = SeqSum(c)
                    /\ r.totalBalance = calc.directRead.v + SeqSum(c)
                    /\ \A k \in 1..Len(calc.lpPairs) :
                          LET listed == {b \in 1..Len(r.lpBreakdown) :
                                           r.lpBreakdown[b].pairAddress
                                               = calc.lpPairs[k].pair_address}
                          IN  IF calc.poolReads[k].ok /\ c[k] > 0
                              THEN /\ Cardinality(listed) = 1
                                   /\ \A b \in listed : r.lpBreakdown[b].chogUnderlying = c[k]
                              ELSE listed = {}

\* the read of the first of two pools threw, the second contributes, and
\* the direct balance is not zero
C13Witness ==
    /\ calc.fn = "getTotalChogExposure" /\ calc.pc = "returned"
    /\ Len(calc.lpPairs) = 2
    /\ ~calc.poolReads[1].ok
    /\ calc.directRead.ok /\ calc.directRead.v > 0
    /\ calc.result.ok
    /\ calc.result.lpBalance > 0
    /\ calc.result.totalBalance = calc.directRead.v + calc.result.lpBalance
    /\ Len(calc.result.lpBreakdown) = 1

\* the ids of the profiles an invocation has loaded with their wallets
LoadedIds(l) == {l.profiles[k].id : k \in 1..Len(l.profiles)}

\* C14: a profile is in the list a run has loaded exactly when it had a
\* linked wallet at the time the run read its wallets, and it is there
\* once; a run that ends success has a snapshot for each profile of that
\* list, eligible or not, with or without failed wallets; a snapshot, once
\* written, is neither changed nor removed, so that a (run id, profile id)
\* pair has one snapshot for ever.
C14OneSnapshotPerProfile ==
    [][/\ \A key \in DOMAIN profile_snapshots :
             /\ key \in DOMAIN profile_snapshots'
             /\ profile_snapshots'[key] = profile_snapshots[key]
       /\ \A i \in Invocations :
             LET l == inv[i]
                 m == inv'[i]
             IN  /\ (l.pc = "getWalletsByProfile" /\ m.toLoad # l.toLoad)
                        => /\ (Head(l.toLoad).id \in LoadedIds(m))
                                 <=> \E w \in DOMAIN wallets :
                                        wallets[w].profile_id = Head(l.toLoad).id
                           /\ Cardinality(LoadedIds(m)) = Len(m.profiles)
                 /\ (/\ l.pc = "finish"
                      /\ l.runId \in DOMAIN screening_runs
                      /\ screening_runs'[l.runId].status = "success")
                        => getSnapshotsForRun(l.runId) = LoadedIds(l)
    ]_vars

\* a run has ended success with two snapshots: an eligible profile's, and
\* that of a profile none of whose wallets could be read
C14Witness ==
    \E r \in DOMAIN screening_runs :
        /\ screening_runs[r].status = "success"
        /\ screening_runs[r].profiles_processed = 2
        /\ \E p, q \in getSnapshotsForRun(r) :
              /\ profile_snapshots[<<r, p>>].eligible = 1
              /\ profile_snapshots[<<r, q>>].eligible = 0
              /\ profile_snapshots[<<r, q>>].details_json = <<>>

\* the profiles of a set, in a sequence
RECURSIVE SeqOf(_)
SeqOf(set) ==
    IF set = {} THEN <<>>
    ELSE LET x == CHOOSE y \in set : TRUE IN <<x>> \o SeqOf(set \ {x})

\* the wallets listed in the snapshots of a run
WalletsListed(runId) ==
    LET ps == SeqOf(getSnapshotsForRun(runId))
    IN  SeqSum([k \in 1..Len(ps) |-> Len(profile_snapshots[<<runId, ps[k]>>].details_json)])

\* C15, as the code has it: the counters of a run that has ended success
\* agree with its snapshots: profiles_processed is the number of its
\* snapshots, eligible_count the number of those with eligible = 1, and
\* wallets_processed the number of wallets listed in them, which are the
\* wallets whose exposure computation and whose update of the cached
\* balances both succeeded.
C15CountersAgreeWithSnapshots ==
    \A r \in DOMAIN screening_runs :
        screening_runs[r].status = "success" =>
            /\ screening_runs[r].profiles_processed = Cardinality(getSnapshotsForRun(r))
            /\ screening_runs[r].eligible_count = Cardinality(EligibleIn(r))
            /\ screening_runs[r].wallets_processed = WalletsListed(r)

\* a run of two profiles has ended success with one of them eligible and
\* one wallet counted, the other wallet's update having failed
C15Witness ==
    \E r \in DOMAIN screening_runs :
        /\ screening_runs[r].status = "success"
        /\ screening_runs[r].profiles_processed = 2
        /\ screening_runs[r].eligible_count = 1
        /\ screening_runs[r].wallets_processed = 1
        /\ \E w \in DOMAIN wallets : wallets[w].error_reason = D1Error

\* C15 as stated: wallets_processed of a run that ends success is the
\* number of wallets whose exposure computation succeeded.
C15CountsComputedExposures ==
    [][\A i \in Invocations :
         (/\ inv[i].pc = "finish"
          /\ inv[i].runId \in DOMAIN screening_runs
          /\ screening_runs'[inv[i].runId].status = "success")
            => screening_runs'[inv[i].runId].wallets_processed = inv[i].exposuresComputed
    ]_vars

\* the ranked profiles that are eligible, and the profile a handle of the
\* excerpt stands for
RankedEligible == {k \in 1..Len(calc.totals) : calc.totals[k] >= Value(DefaultThresholdRaw)}

RankedBy(handle) == {k \in 1..Len(calc.totals) : toString(k) = handle}

\* C16: the leaderboard excerpt holds only profiles eligible in the run,
\* each once; it has min(10, number of eligible profiles) entries; the
\* aggregates of its entries do not increase from one entry to the next; no
\* eligible profile left out has an aggregate greater than that of an entry.
C16LeaderboardIsTopTen ==
    (calc.fn = "topEligible" /\ calc.pc = "returned")
        => LET top == calc.topEligible
               rank == [j \in 1..Len(top) |-> RankedBy(top[j])]
               included == UNION {rank[j] : j \in 1..Len(top)}
               total == [j \in 1..Len(top) |-> calc.totals[CHOOSE k \in rank[j] : TRUE]]
           IN  /\ \A j \in 1..Len(top) :
                     /\ Cardinality(rank[j]) = 1
                     /\ rank[j] \subseteq RankedEligible
               /\ Cardinality(included) = Len(top)
               /\ Len(top) = IF Cardinality(RankedEligible) < 10
                              THEN Cardinality(RankedEligible) ELSE 10
               /\ \A j \in 1..Len(top) - 1 : total[j] >= total[j + 1]
               /\ \A out \in RankedEligible \ included :
                     \A j \in 1..Len(top) : calc.totals[out] <= total[j]

\* eleven profiles are eligible, the one ranked first was evaluated last,
\* and one with a smaller aggregate is left out
C16Witness ==
    /\ calc.fn = "topEligible" /\ calc.pc = "returned"
    /\ Cardinality(RankedEligible) = 11
    /\ Len(calc.topEligible) = 10
    /\ calc.topEligible[1] = toString(11)
    /\ calc.totals[11] > calc.totals[1]
    /\ \E out \in RankedEligible :
          /\ toString(out) \notin Range(calc.topEligible)
          /\ calc.totals[out] < calc.totals[11]

\* C17: whatever the outcome of the delivery, the run goes on to the UPDATE
\* that ends it success: the delivery changes nothing in the database and
\* nothing of what the run holds but messageSent, and that UPDATE writes the
\* counters the run held before the delivery, message_sent being 1 exactly
\* when the sink reported success.
C17DeliveryFailureIsHarmless ==
    [][\A i \in Invocations :
         LET l == inv[i]
             m == inv'[i]
         IN  /\ l.pc = "sendTelegramMessage"
                    => /\ m = [l EXCEPT !.pc = "finish", !.messageSent = m.messageSent]
                       /\ UNCHANGED Db
             /\ (l.pc = "finish" /\ m.pc = "returned")
                    => /\ m.result.status = "success"
                       /\ m.result.messageSent = l.messageSent
                       /\ l.runId \in DOMAIN screening_runs
                            => LET row == screening_runs'[l.runId]
                               IN  /\ row.status = "success"
                                   /\ row.message_sent = (IF l.messageSent THEN 1 ELSE 0)
                                   /\ row.profiles_processed = Len(l.profiles)
                                   /\ row.wallets_processed = l.walletsProcessed
                                   /\ row.eligible_count = l.eligibleCount
                       /\ UNCHANGED profile_snapshots
    ]_vars

\* the notifications are enabled, and a run with an eligible profile has
\* ended success without its message delivered
C17Witness ==
    /\ SettingValue("bot_notifications_enabled") = <<"t", "r", "u", "e">>
    /\ \E i \in Invocations :
          /\ inv[i].pc = "returned"
          /\ inv[i].result.status = "success"
          /\ inv[i].result.eligibleCount > 0
          /\ ~inv[i].result.messageSent
          /\ inv[i].result.runId \in DOMAIN screening_runs
          /\ screening_runs[inv[i].result.runId].status = "success"
          /\ screening_runs[inv[i].result.runId].message_sent = 0

NotificationsOff == SettingValue("bot_notifications_enabled") = <<"f", "a", "l", "s", "e">>

\* C18: a run goes to the delivery of its summary only from the read of
\* bot_notifications_enabled, and only when the value read is not 'false'
\* and a bot token and a chat id are configured; when the value read is
\* 'false' the run goes to its end with nothing sent and messageSent false;
\* messageSent becomes true only in a delivery, and message_sent is 1 only
\* for a run whose messageSent was true.
C18DeliveryIsGated ==
    [][\A i \in Invocations :
         LET l == inv[i]
             m == inv'[i]
         IN  /\ (m.pc = "sendTelegramMessage" /\ l.pc # "sendTelegramMessage")
                    => /\ l.pc = "readNotifications"
                       /\ ~NotificationsOff
                       /\ TELEGRAM_BOT_TOKEN # "" /\ l.groupChatId \notin {"", NULL}
             /\ (l.pc = "readNotifications" /\ m # l /\ NotificationsOff)
                    => /\ m.pc \in {"finish", "catch"}
                       /\ ~m.messageSent
             /\ (m.messageSent /\ ~l.messageSent) => l.pc = "sendTelegramMessage"
             /\ (l.pc = "finish" /\ m.pc = "returned")
                    => /\ m.result.messageSent = l.messageSent
                       /\ l.runId \in DOMAIN screening_runs
                            => (screening_runs'[l.runId].message_sent = 1) <=> l.messageSent
    ]_vars

\* the switch is off, and a run that has eligible profiles to report is at
\* its end with nothing sent
C18Witness ==
    /\ NotificationsOff
    /\ \E i \in Invocations :
          /\ inv[i].pc = "finish"
          /\ inv[i].eligibleCount > 0
          /\ ~inv[i].messageSent

\* C19 as stated: what is taken as a profile's current eligibility never
\* comes from a snapshot of a run that ended error: not the baseline of a
\* later diff, and not the row on which a join request is approved or
\* declined.
C19ErrorRunsNeverUsed ==
    [][/\ \A i \in Invocations :
             (inv'[i].baseline # 0 /\ inv[i].baseline = 0)
                => screening_runs[inv'[i].baseline].status # "error"
       /\ (join' # join /\ join'.run_id # 0)
             => screening_runs[join'.run_id].status # "error"
    ]_vars

\* C20: no two wallet records have the same address, compared without
\* regard to case; so no address is linked to two profiles, nor twice to
\* one.
C20AddressLinkedOnce ==
    \A w, x \in DOMAIN wallets :
        toLowerCase(wallets[w].address) = toLowerCase(wallets[x].address) => w = x

\* two requests for one address, written in different cases and for
\* different profiles, have both passed the check of the address; the
\* first to insert has linked it, the other's INSERT was refused
C20Witness ==
    \E q, r \in 1..Len(links) :
        /\ links[q].pc = "201" /\ links[r].pc = "500"
        /\ links[q].address # links[r].address
        /\ toLowerCase(links[q].address) = toLowerCase(links[r].address)
        /\ links[q].profile_id # links[r].profile_id
        /\ \E w \in DOMAIN wallets :
              /\ wallets[w].address = toLowerCase(links[q].address)
              /\ wallets[w].profile_id = links[q].profile_id

(***************************************************************************)
(* Properties of the requests on profiles, nonces and wallets              *)
(* (SpecAccount).                                                          *)
(***************************************************************************)
\* the handler in slot s responds in this step, a link handler with an
\* error (it responds 201 after the initial balance, and not otherwise)
Responds(s) == accounts.reqs[s] # NoRequest /\ accounts'.reqs[s] = NoRequest

LinkResponds(s) == accounts.reqs[s].kind = "link" /\ accounts'.reqs[s] = NoRequest

LinkFails(s) == LinkResponds(s) /\ accounts.reqs[s].pc # "initialBalance"

\* a request is received and answered at its first await
AnsweredAtOnce(kind) ==
    /\ accounts'.received[kind] = accounts.received[kind] + 1
    /\ accounts'.reqs = accounts.reqs

\* C21 as stated: no two persisted profiles have the same normalized
\* handle (lower case, without a leading '@'), whatever the link requests
\* and their interleaving.
C21HandleUnique ==
    \A p, q \in DOMAIN accounts.profiles :
        NormalizeHandle(accounts.profiles[p].telegram_handle)
            = NormalizeHandle(accounts.profiles[q].telegram_handle) => p = q

\* C22 as stated: a profile record is persisted only by a link request
\* that succeeds: upsert persists nothing, and a link request that returns
\* an error leaves no profile it created behind.
C22ProfileOnlyByLinkSuccess ==
    [][/\ AnsweredAtOnce("other")
             => /\ accounts'.profiles = accounts.profiles
                /\ accounts'.nonces = accounts.nonces
                /\ wallets' = wallets
       /\ DOMAIN accounts'.profiles # DOMAIN accounts.profiles
             => \E s \in Slots : accounts.reqs[s].kind = "link"
                                    /\ accounts.reqs[s].pc = "createProfile"
       /\ \A s \in Slots :
             LinkFails(s) => /\ ~accounts.reqs[s].isNewProfile
                             /\ accounts.reqs[s].pc # "reloadProfile"
    ]_vars

\* the wallet records created in this step
CreatedWallets == DOMAIN wallets' \ DOMAIN wallets

DeletedWallets == DOMAIN wallets \ DOMAIN wallets'

\* C24: a wallet record is deleted only by an unlink request for the
\* profile that owns the wallet, carrying the edit secret that matched the
\* hash of that profile; so an unlink request with a wrong secret, for an
\* unknown profile or naming the wallet of another profile deletes nothing.
C24WalletOnlyDeletedByOwner ==
    [][\A w \in DeletedWallets :
         \E s \in Slots :
            LET r == accounts.reqs[s]
            IN  /\ r.kind = "unlink" /\ Responds(s)
                /\ wallets[w].profile_id = r.profile_id
                /\ r.profile.id = r.profile_id
                /\ r.profile_id \in DOMAIN accounts.profiles
                /\ verifySecret(r.edit_secret, r.profile.edit_secret_hash)
    ]_vars

\* a wallet was linked, and its owner has unlinked it; the other profile
\* is persisted too
C24Witness ==
    /\ nextWalletId = 1 /\ DOMAIN wallets = {}
    /\ DOMAIN accounts.profiles = ProfileIds
    /\ accounts.received["other"] = 1
    /\ NoneServed

\* C25 as stated: a recovery rotates the secret of a profile, and hands out
\* the new one, only for a requester who holds the key of a wallet linked
\* to the profile.
C25RecoveryNeedsSignature ==
    [][\A s \in Slots :
         (/\ accounts.reqs[s].kind = "recover" /\ Responds(s)
          /\ \/ accounts'.profiles # accounts.profiles
             \/ accounts'.returned # accounts.returned)
            => accounts.reqs[s].signs
    ]_vars

\* C26 as stated: no two wallets were ever linked with one nonce, and a
\* link request whose nonce is read used or expired is rejected.
C26NonceSingleUse ==
    [][/\ \A w, x \in DOMAIN accounts'.nonceOf :
             accounts'.nonceOf[w] = accounts'.nonceOf[x] => w = x
       /\ \A s \in Slots :
             LET r == accounts.reqs[s]
             IN  (/\ r.kind = "link" /\ r.pc = "getNonce"
                  /\ accounts'.reqs[s] # r
                  /\ r.nonce \in DOMAIN accounts.nonces
                  /\ \/ accounts.nonces[r.nonce].used_at # NoTime
                     \/ accounts.nonces[r.nonce].expires_at < now)
                    => accounts'.reqs[s] = NoRequest
    ]_vars

\* C28 as stated: the secret hash of an existing profile is changed only
\* by a recovery or by a link request, and a link request that ends in an
\* error response has changed none.
C28HashOnlyBySuccess ==
    [][/\ (\E id \in DOMAIN accounts.profiles :
              accounts'.profiles[id].edit_secret_hash
                  # accounts.profiles[id].edit_secret_hash)
             => \E s \in Slots :
                   /\ accounts.reqs[s].kind \in {"link", "recover"}
                   /\ accounts.reqs[s].pc = "updateProfileEditSecret"
                   /\ accounts'.reqs[s] # accounts.reqs[s]
       /\ \A s \in Slots :
             LinkFails(s)
                => /\ accounts.reqs[s].rotated = {}
                   /\ \A id \in DOMAIN accounts.profiles :
                         accounts'.profiles[id].edit_secret_hash
                             = accounts.profiles[id].edit_secret_hash
    ]_vars

(***************************************************************************)
(* Properties of what a run writes to a wallet (Spec).                     *)
(***************************************************************************)
\* the wallet invocation l is at
WalletAt(l) == l.profiles[l.pi].wallets[l.wi]

\* the cached balances and the checked-timestamp of a wallet row
Cached(row) ==
    <<row.last_direct_chog_raw, row.last_lp_chog_raw, row.last_total_chog_raw,
      row.last_checked_at>>

\* C29: a run whose computation for a wallet fails (getTotalChogExposure or
\* updateWalletBalances throws) writes nothing then, and its catch block
\* writes the status and the error reason of that wallet only: the cached
\* balances and last_checked_at of every wallet stay as they were.  A run
\* whose computation succeeds writes direct, pool-derived and total with
\* total = direct + pool-derived, and they are the values of the entry it
\* adds for the wallet to the breakdown, which the snapshot of the profile
\* records as it is.
C29FailureKeepsCachedBalances ==
    [][\A i \in Invocations :
         LET l == inv[i]
             failed == inv'[i].pc = "markWalletError"
         IN  /\ (l.pc \in {"getTotalChogExposure", "updateWalletBalances"} /\ failed)
                    => wallets' = wallets
             /\ (l.pc = "markWalletError" /\ inv'[i] # l)
                    => /\ DOMAIN wallets' = DOMAIN wallets
                       /\ \A w \in DOMAIN wallets :
                             /\ Cached(wallets'[w]) = Cached(wallets[w])
                             /\ w # WalletAt(l).id => wallets'[w] = wallets[w]
             /\ (/\ l.pc = "updateWalletBalances" /\ inv'[i] # l /\ ~failed
                 /\ WalletAt(l).id \in DOMAIN wallets)
                    => LET row == wallets'[WalletAt(l).id]
                           entry == inv'[i].walletDetails[Len(inv'[i].walletDetails)]
                       IN  /\ Value(row.last_total_chog_raw)
                                 = Value(row.last_direct_chog_raw)
                                     + Value(row.last_lp_chog_raw)
                           /\ row.last_checked_at = now
                           /\ entry.address = WalletAt(l).address
                           /\ entry.directChog = row.last_direct_chog_raw
                           /\ entry.lpChog = row.last_lp_chog_raw
                           /\ entry.totalChog = row.last_total_chog_raw
             /\ (l.pc = "insertSnapshot" /\ inv'[i].pc # "catch" /\ inv'[i] # l)
                    => profile_snapshots'[<<l.runId, l.profiles[l.pi].id>>].details_json
                          = l.walletDetails
    ]_vars

\* a wallet whose computation succeeded in one run, with a total that is
\* not zero, and failed in a later run: the snapshot of the first lists it
\* with the total that is still cached, the snapshot of the second does not
\* list it, and its status is error
C29Witness ==
    \E w \in DOMAIN wallets :
    \E q, r \in DOMAIN screening_runs :
        LET a == <<q, wallets[w].profile_id>>
            b == <<r, wallets[w].profile_id>>
        IN  /\ q < r
            /\ wallets[w].status = "error"
            /\ wallets[w].last_total_chog_raw # NoText
            /\ Value(wallets[w].last_total_chog_raw) > 0
            /\ a \in DOMAIN profile_snapshots /\ b \in DOMAIN profile_snapshots
            /\ \E k \in DetailOf(profile_snapshots[a].details_json, wallets[w].address) :
                  profile_snapshots[a].details_json[k].totalChog
                      = wallets[w].last_total_chog_raw
            /\ DetailOf(profile_snapshots[b].details_json, wallets[w].address) = {}

\* C30 as stated: when the computation for a wallet has succeeded and its
\* balances are written, the status of the wallet is verified and its error
\* reason is cleared, whatever an earlier run had set them to.
C30StatusFollowsLatestOutcome ==
    [][\A i \in Invocations :
         LET l == inv[i]
         IN  (/\ l.pc = "updateWalletBalances" /\ inv'[i] # l
              /\ inv'[i].pc # "markWalletError"
              /\ WalletAt(l).id \in DOMAIN wallets)
                => /\ wallets'[WalletAt(l).id].status = "verified"
                   /\ wallets'[WalletAt(l).id].error_reason = NULL
    ]_vars

\* C31: the result an invocation returned agrees with the run record of its
\* run id.  A result of a run that succeeded has the status and the
\* counters of the record; a result of a run that failed has the message
\* that was caught and counters of zero, and the record has status error,
\* that message and counters of zero; the result of a skipped invocation
\* has the empty run id, which is the id of no record.
C31ResultAgreesWithRecord ==
    \A i \in Invocations :
        inv[i].pc = "returned"
            => LET res == inv[i].result
               IN  IF res.error = "Skipped"
                   THEN /\ res.runId = NoResult.runId
                        /\ res.runId \notin DOMAIN screening_runs
                   ELSE /\ res.runId \in DOMAIN screening_runs
                        /\ LET row == screening_runs[res.runId]
                           IN  /\ row.status = res.status
                               /\ res.status \in {"success", "error"}
                               /\ res.status = "success"
                                     => /\ row.profiles_processed = res.profilesProcessed
                                        /\ row.wallets_processed = res.walletsProcessed
                                        /\ row.eligible_count = res.eligibleCount
                                        /\ row.message_sent = (IF res.messageSent THEN 1 ELSE 0)
                               /\ res.status = "error"
                                     => /\ res.error # NULL /\ row.error = res.error
                                        /\ res.profilesProcessed = 0 /\ row.profiles_processed = 0
                                        /\ res.walletsProcessed = 0 /\ row.wallets_processed = 0
                                        /\ res.eligibleCount = 0 /\ row.eligible_count = 0
                                        /\ ~res.messageSent /\ row.message_sent = 0

\* one invocation has returned the result of a run that failed, another
\* that of a run that succeeded although the computation for the only
\* wallet failed: it has processed profiles and no wallet
C31Witness ==
    \E i, k \in Invocations :
        /\ inv[i].pc = "returned" /\ inv[i].result.status = "error"
        /\ inv[k].pc = "returned" /\ inv[k].result.status = "success"
        /\ inv[k].result.runId # NoResult.runId
        /\ inv[k].result.profilesProcessed > 0
        /\ inv[k].result.walletsProcessed = 0
        /\ \E w \in DOMAIN wallets : wallets[w].status = "error"

\* C32 as stated: within one run a wallet address is listed in the
\* breakdown of at most one profile, so it contributes to one aggregate,
\* whatever is linked and unlinked while the run loads the profiles.
C32AddressCountedOnce ==
    \A a, b \in DOMAIN profile_snapshots :
        (a[1] = b[1] /\ a # b)
            => \A k \in 1..Len(profile_snapshots[a].details_json) :
                  DetailOf(profile_snapshots[b].details_json,
                           profile_snapshots[a].details_json[k].address) = {}

(***************************************************************************)
(* Properties of overlapping invocations (SpecOverlap).                    *)
(***************************************************************************)
\* C27 as stated: a non-forced invocation that reaches its interval check
\* while a run is still running is held back by the check: it does not go
\* on to create a second run.
C27GateHoldsBackSecondRun ==
    [][\A i \in Invocations :
         (/\ ~inv[i].force
          /\ inv[i].pc \in {"gateLastRun", "gateInterval"}
          /\ inv'[i].pc = "insertRun")
            => \A r \in DOMAIN screening_runs :
                  screening_runs[r].status # "running"
    ]_vars

(***************************************************************************)
(* Properties of the lists of users to kick and of the join requests       *)
(* (SpecGate).                                                             *)
(***************************************************************************)
\* the profiles whose handle, in lower case and without '@', is the
\* username
ProfilesNamed(username) ==
    {profiles[k].id : k \in {j \in 1..Len(profiles) :
        /\ username # NoText
        /\ toLowerCase(ReplaceAt(profiles[j].telegram_handle)) = toLowerCase(username)}}

\* the snapshots of a profile from the run that started last among those
\* with a snapshot of it
MostRecentSnapshots(id) ==
    {key \in DOMAIN profile_snapshots :
        /\ key[2] = id
        /\ \A other \in DOMAIN profile_snapshots :
              other[2] = id
                 => screening_runs[other[1]].started_at
                       <= screening_runs[key[1]].started_at}

\* C33 as stated: a user on the to_kick list is in the group, and either no
\* profile has the username or the most recent snapshot of the profile has
\* a total below the threshold (a profile without snapshot counting as 0);
\* so a member whose most recent snapshot meets the threshold is not listed.
C33KickListFollowsLatestSnapshot ==
    [][group'.to_kick # group.to_kick
         => \A row \in group'.to_kick.rows :
               LET member == group.group_members[row.telegram_user_id]
                   named == ProfilesNamed(member.telegram_username)
               IN  /\ member.left_at = NoTime
                   /\ \/ named = {}
                      \/ \E id \in named :
                            \/ MostRecentSnapshots(id) = {}
                            \/ \E key \in MostRecentSnapshots(id) :
                                  Value(profile_snapshots[key].total_chog_raw)
                                      < group'.to_kick.threshold
    ]_vars

\* C34 as stated: a join request is approved only if a profile has the
\* username of the requester and the snapshot of that profile from the most
\* recent run, by the start of the run, is eligible.
C34ApprovedOnLatestSnapshot ==
    [][(join' # join /\ join'.approved)
         => \E id \in ProfilesNamed(join'.username) :
            \E key \in MostRecentSnapshots(id) :
                profile_snapshots[key].eligible = 1
    ]_vars

(***************************************************************************)
(* Properties of the members of the group, of its migration and of the     *)
(* admins (SpecGroup, SpecAdmins).                                         *)
(***************************************************************************)
\* C35 as stated: a group_members row has left_at = NULL exactly when the
\* event processed last for its user (a member update, a kick or an
\* import) put the user in the group.
C35LeftAtFollowsLastEvent ==
    \A u \in DOMAIN group.group_members :
        (group.group_members[u].left_at = NoTime) <=> (group.lastEvent[u] = "in")

\* C36 as stated: the group whose member updates are tracked is the group
\* that receives the notifications and the kicks (getGroupChatId), whatever
\* migrations and changes of the telegram_chat_id setting have been made.
C36TrackedGroupIsNotified ==
    \A chat \in ChatIdNumbers : IsTrackedChat(chat) <=> String(chat) = getGroupChatId

\* C37 as stated: the notification target changes only in the step of a
\* migrate request that saves the setting, the request carrying the code of
\* a migration session that is unexpired and unconsumed and has authorised
\* no migration before (the code was compared when the request arrived).
C37TargetChangesOnlyByMigration ==
    [][getGroupChatId' # getGroupChatId =>
         \E s \in GroupSlots :
            /\ group.reqs[s].kind = "migrate" /\ group.reqs[s].pc = "saveSetting"
            /\ group'.reqs[s].pc = "consume"
            /\ group.reqs[s].session_id \in MigrationSession(group.reqs[s].session_id)
            /\ group.reqs[s].session_id \notin DOMAIN group.migrated]_vars

\* C38 as stated: the admins table is never empty, whatever requests to
\* remove admins are served, two at a time included.
C38AdminsNeverEmpty == group.admins # {}

====
